---- MODULE Spec2Model ----
(***************************************************************************)
(* A model of the DeployScript release tool:                               *)
(*   - the pipeline dispatcher        (src/gitlab/gitlab.go),  Spec        *)
(*   - the release-notes synthesizer  (src/git/git.go),        SpecNotes   *)
(*   - the previous-branch lookup     (src/git/git.go),        SpecBranch  *)
(*   - the task-identifier extraction (src/git/git.go),        SpecExtract *)
(*   - the descriptor version rewrite (src/main.go),           SpecPom     *)
(*   - one poll loop                  (src/gitlab/gitlab.go),  SpecWait    *)
(*   - the phases of main             (src/main.go),           SpecFleet   *)
(*   - the choice of the first service (src/git/git.go),       SpecLineage *)
(***************************************************************************)
EXTENDS Integers, Sequences, FiniteSets, TLC

VARIABLES
    \* ---- pipeline dispatcher (gitlab.CreatePipelines) ----
    services,            \* the input slice, in input order
    helmNamespace,       \* the helmNamespace argument
    sequentialServices,  \* the sequential list built at gitlab.go:59-72
    groups,              \* the map group name -> member list
    mainPc,              \* position of the coordinating goroutine
    seqIdx,              \* index of the sequential service being dispatched
    groupsDone,          \* groups whose range iteration has finished
    curGroup,            \* the group of the current range iteration
    spawnIdx,            \* next member of curGroup to spawn a worker for
    wg,                  \* the sync.WaitGroup counter
    errors,              \* the buffered errors channel of the current group
    result,              \* what CreatePipelines returned
    svcPc,               \* per service: idle | spawned | polling | done,
                         \* or blocked in a send on the errors channel
    outcome,             \* per service: how its dispatch ended
    triggers,            \* per service: trigger requests issued
    polled,              \* per service: a status poll was issued
    waits,               \* per service: ticker periods the running
                         \* waitForPipeline has waited (a local of the call)
    lastTrigger          \* the latest trigger request sent: the answer its
                         \* pre-check got, and whether it carries HELM_NAMESPACE

VARIABLES
    \* ---- release notes (git.CreateReleaseNotes) ----
    version,             \* the version argument
    taskURLPrefix,       \* the taskURLPrefix argument
    nPc,                 \* position inside CreateReleaseNotes
    prevBranch,          \* the previous release branch found
    remaining,           \* services the range over dirs has not visited yet
    curSvc,              \* the service of the current iteration
    lastTagInPrevBranch, \* the marker of the current service
    mergedTags,          \* the tags git lists as merged into the previous branch
    betweenStats,        \* len(commitsBetweenReleases) and tasksFoundBetween
    allTasksBetweenReleases,
    tasksInPreviousRelease,
    serviceStats,        \* the statistics map, service -> row
    artifact,            \* the content written to release-notes-<n>.txt
    notesResult          \* what CreateReleaseNotes returned

VARIABLES
    \* ---- git.GetPreviousReleaseBranch and git.GetCommitsBetween ----
    currentVersion,      \* the currentVersion argument
    refs,                \* the release branches origin has
    branchResult,        \* what GetPreviousReleaseBranch returned
    log,                 \* the subjects git log listed for the range
    commits,             \* what GetCommitsBetween returned
    commitsAnchored,     \* what the GetCommitsBetween of the earlier git.go
                         \* returned for the same log
    dirRefs,             \* per service of dirs: the release branches the
                         \* origin of its repository has
    firstDir             \* the service the range at git.go:467 yielded

gvars == <<currentVersion, refs, branchResult, log, commits, commitsAnchored,
           dirRefs, firstDir>>

VARIABLES
    \* ---- descriptor rewrite (UpdatePomFiles, UpdatePomFile) ----
    pomFiles,            \* the pom.xml files under dir: path -> lines
    pomVersion,          \* the version argument
    propertyPattern,     \* the propertyPattern argument
    pomCalls,            \* completed calls of UpdatePomFiles
    pomInput,            \* the files before the first call
    pomFirst,            \* the files after the first call
    pomErr               \* whether a call returned an error

pvars == <<pomFiles, pomVersion, propertyPattern, pomCalls, pomInput, pomFirst,
           pomErr>>

nvars == <<version, taskURLPrefix, nPc, prevBranch,
           remaining, curSvc, lastTagInPrevBranch, mergedTags,
           betweenStats,
           allTasksBetweenReleases, tasksInPreviousRelease, serviceStats,
           artifact, notesResult>>

dvars == <<services, helmNamespace, sequentialServices, groups, mainPc, seqIdx,
           groupsDone, curGroup, spawnIdx, wg, errors, result, svcPc, outcome,
           triggers, polled, waits, lastTrigger>>

VARIABLES
    \* ---- one poll loop (gitlab.waitForPipeline) ----
    waitPc,              \* idle | polling | returned
    ticks,               \* ticker periods the loop has waited (<-ticker.C)
    statuses,            \* the answers to the polls made so far, in order
    sinceStart,          \* time.Since(startTime) at the latest poll, in periods
    waitReturn           \* none, or how the loop ended

wvars == <<waitPc, ticks, statuses, sinceStart, waitReturn>>

VARIABLES
    \* ---- the phases of main ----
    fleetPc,             \* idle, the loop main is in, done or fatal
    fleetIdx,            \* the service of the current iteration
    fleetFiles,          \* per service: the pom.xml files under its directory
    fleetInput,          \* fleetFiles before phase 4
    fleetVersion,        \* the version argument
    fleetSteps,          \* per service: the phases completed for it
    fleetConfirm         \* how the read of the prompt before the push ended

fvars == <<fleetPc, fleetIdx, fleetFiles, fleetInput, fleetVersion, fleetSteps,
           fleetConfirm>>

vars == <<dvars, nvars, gvars, pvars, wvars, fvars>>

(***************************************************************************)
(* Bounds of the model.                                                    *)
(***************************************************************************)
NumServices == 3
\* the 60 minute ceiling of waitForPipeline, counted in ticker periods
MaxDurationTicks == 1
\* the version argument of CreateReleaseNotes ranges over 0..MaxVersion
MaxVersion == 3
\* commits a queried commit range holds at most
MaxCommits == 3
\* descriptor lines in a tree
MaxLines == 3

(***************************************************************************)
(* Pipeline dispatcher                                                     *)
(***************************************************************************)
GroupNames == {"g1", "g2"}

\* gitlab.Service: the fields the dispatcher reads. A service marked
\* sequential may still name a group.
ServiceT == {s \in [name : 1..NumServices, Sequential : BOOLEAN,
                    Group : {""} \cup GroupNames] :
                s.Sequential => s.Group \in {"", "g1"}}

SvcIds == 1..NumServices

\* the statuses waitForPipeline names. "manual" stands for any other status;
\* "api_error" is a response other than 200 whose body is a JSON object (the
\* loop does not read the status code, and Status decodes as the empty
\* string); "transport_error" is a failed request, read or decode.
TerminalFailure == {"failed", "canceled", "skipped"}
NonTerminal == {"running", "pending", "created"}
Unrecognised == {"manual", "api_error"}
PollResponses == {"success"} \cup TerminalFailure \cup NonTerminal
                    \cup Unrecognised \cup {"transport_error"}

\* what the remote answers to the variable read and to the trigger request
VarResponses == {"transport_error", "404", "200_blank", "200_value", "500"}
TriggerResponses == {"201", "400", "transport_error"}

\* the error values CreatePipelines handles: nil, or which call of which
\* service failed
NoError == [svc |-> 0, kind |-> "nil"]
NotReturned == [svc |-> 0, kind |-> "none"]

\* the sequential list that takes every service
PartitionSequential_All(svcs) == svcs

\* lines 59-72: the sequential list
PartitionSequential(svcs) ==
    SelectSeq(svcs, LAMBDA s : s.Sequential \/ s.Group = "")

\* lines 59-72: the groups map
PartitionGroups(svcs) ==
    LET names == {svcs[i].Group : i \in {j \in DOMAIN svcs :
                        ~svcs[j].Sequential /\ svcs[j].Group # ""}}
    IN [g \in names |-> SelectSeq(svcs, LAMBDA s : ~s.Sequential /\ s.Group = g)]

\* the pre-check that asks for the override whatever the remote value
checkHelmNamespaceVariable_AlwaysNeeds(resp) ==
    [needs |-> TRUE, err |-> resp \in {"transport_error", "500"}]

\* checkHelmNamespaceVariable: does the trigger need the override, or an error
checkHelmNamespaceVariable(resp) ==
    CASE resp = "transport_error" -> [needs |-> FALSE, err |-> TRUE]
      [] resp = "404"             -> [needs |-> TRUE,  err |-> FALSE]
      [] resp = "500"             -> [needs |-> FALSE, err |-> TRUE]
      [] resp = "200_blank"       -> [needs |-> TRUE,  err |-> FALSE]
      [] resp = "200_value"       -> [needs |-> FALSE, err |-> FALSE]

\* createPipeline with a second trigger request after a refused one
createPipeline_Retry(varResp, trigResp, ns) ==
    LET chk == checkHelmNamespaceVariable(varResp)
    IN IF chk.err
       THEN [err |-> TRUE, sent |-> 0, request |-> <<>>]
       ELSE [err |-> trigResp # "201",
             sent |-> IF trigResp = "201" THEN 1 ELSE 2,
             request |-> <<[precheck |-> varResp,
                            override |-> chk.needs /\ ns # ""]>>]

\* createPipeline: the pre-check, then at most one trigger request
createPipeline(varResp, trigResp, ns) ==
    LET chk == checkHelmNamespaceVariable(varResp)
    IN IF chk.err
       THEN [err |-> TRUE, sent |-> 0, request |-> <<>>]
       ELSE [err |-> trigResp # "201", sent |-> 1,
             request |-> <<[precheck |-> varResp,
                            override |-> chk.needs /\ ns # ""]>>]

\* the loop with skipped taken for a status that does not end it
waitForPipelineStep_SkippedGoesOn(resp, waited, late) ==
    LET now == IF late THEN waited + 1 ELSE waited
    IN CASE resp = "transport_error" -> "poll_error"
         [] resp = "success" -> "success"
         [] resp \in TerminalFailure \ {"skipped"} -> "failed"
         [] OTHER -> IF now > MaxDurationTicks THEN "timeout" ELSE "continue"

\* the loop without the ceiling test
waitForPipelineStep_NoCeiling(resp, waited, late) ==
    CASE resp = "transport_error" -> "poll_error"
      [] resp = "success" -> "success"
      [] resp \in TerminalFailure -> "failed"
      [] OTHER -> "continue"

\* one iteration of the loop of waitForPipeline (lines 245-284): the status
\* switch, then the ceiling test. waited is the number of ticker periods the
\* loop has waited so far; late says whether the wall clock passed one more
\* period while this request was in flight.
waitForPipelineStep(resp, waited, late) ==
    LET now == IF late THEN waited + 1 ELSE waited
    IN CASE resp = "transport_error" -> "poll_error"
         [] resp = "success" -> "success"
         [] resp \in TerminalFailure -> "failed"
         [] OTHER -> IF now > MaxDurationTicks THEN "timeout" ELSE "continue"

\* lines 79 and 102: the test of createPipeline's error
CreateFailed_IgnoreErr(r) == FALSE

CreateFailed(r) == r.err

\* lines 84 and 108: the test of waitForPipeline's error, r being the way the
\* loop ended
WaitFailed_IgnoreErr(r) == FALSE

\* the test that lets a loop ended by the ceiling pass
WaitFailed_TimeoutPasses(r) == r \in {"failed", "poll_error"}

WaitFailed(r) == r # "success"

\* line 97: wg.Add(1)
wgAdd_Missing(w) == w

wgAdd(w) == w + 1

\* line 115: wg.Wait() returns once the counter is zero
WaitReturns_NoWait(w) == TRUE

WaitReturns(w) == w = 0

\* the trigger request is only sent, and answered, after a good pre-check
TriggerAnswers(vr) ==
    IF checkHelmNamespaceVariable(vr).err THEN {"none"} ELSE TriggerResponses

\* the wall clock is only read after a status that does not end the loop
Lateness(resp) ==
    IF resp \in NonTerminal \cup Unrecognised THEN BOOLEAN ELSE {FALSE}

Members(g) ==
    IF g \in DOMAIN groups THEN {groups[g][i].name : i \in DOMAIN groups[g]} ELSE {}
SeqNames == {sequentialServices[i].name : i \in DOMAIN sequentialServices}

InitDispatch ==
    /\ services \in {s \in [SvcIds -> ServiceT] : \A i \in SvcIds : s[i].name = i}
    /\ helmNamespace \in {"", "ns"}
    /\ sequentialServices = <<>>
    /\ groups = <<>>
    /\ mainPc = "start"
    /\ seqIdx = 0
    /\ groupsDone = {}
    /\ curGroup = ""
    /\ spawnIdx = 0
    /\ wg = 0
    /\ errors = <<>>
    /\ result = NotReturned
    /\ svcPc = [s \in SvcIds |-> "idle"]
    /\ outcome = [s \in SvcIds |-> "none"]
    /\ triggers = [s \in SvcIds |-> 0]
    /\ polled = [s \in SvcIds |-> FALSE]
    /\ waits = [s \in SvcIds |-> 0]
    /\ lastTrigger = [precheck |-> "none", override |-> FALSE]

\* lines 49-72: the environment checks and the partition
Start ==
    /\ mainPc = "start"
    /\ \E tokenSet \in BOOLEAN, uriSet \in BOOLEAN :
         IF tokenSet /\ uriSet
         THEN /\ sequentialServices' = PartitionSequential(services)
              /\ groups' = PartitionGroups(services)
              /\ seqIdx' = 1
              /\ mainPc' = IF PartitionSequential(services) = <<>>
                           THEN "group_pick" ELSE "seq_create"
              /\ UNCHANGED result
         ELSE /\ result' = [svc |-> 0, kind |-> "env"]
              /\ mainPc' = "returned"
              /\ UNCHANGED <<sequentialServices, groups, seqIdx>>
    /\ UNCHANGED <<services, helmNamespace, groupsDone, curGroup, spawnIdx, wg,
                   errors, svcPc, outcome, triggers, polled, waits, lastTrigger>>

\* lines 76-81: createPipeline for the next sequential service
SeqCreate ==
    /\ mainPc = "seq_create"
    /\ LET s == sequentialServices[seqIdx].name
       IN \E vr \in VarResponses : \E tr \in TriggerAnswers(vr) :
            LET r == createPipeline(vr, tr, helmNamespace)
            IN /\ triggers' = [triggers EXCEPT ![s] = @ + r.sent]
               /\ lastTrigger' = IF r.sent = 1 THEN r.request[1] ELSE lastTrigger
               /\ IF CreateFailed(r)
                  THEN /\ result' = [svc |-> s, kind |-> "create"]
                       /\ mainPc' = "returned"
                       /\ svcPc' = [svcPc EXCEPT ![s] = "done"]
                       /\ outcome' = [outcome EXCEPT ![s] = "trigger_error"]
                  ELSE /\ mainPc' = "seq_wait"
                       /\ svcPc' = [svcPc EXCEPT ![s] = "polling"]
                       /\ UNCHANGED <<result, outcome>>
    /\ UNCHANGED <<services, helmNamespace, sequentialServices, groups, seqIdx,
                   groupsDone, curGroup, spawnIdx, wg, errors, polled, waits>>

\* lines 84-86 with one iteration of the loop at 245-284
SeqPoll ==
    /\ mainPc = "seq_wait"
    /\ LET s == sequentialServices[seqIdx].name
       IN \E resp \in PollResponses : \E late \in Lateness(resp) :
            LET r == waitForPipelineStep(resp, waits[s], late)
            IN /\ polled' = [polled EXCEPT ![s] = TRUE]
               /\ waits' = [waits EXCEPT ![s] = IF r = "continue" THEN @ + 1 ELSE 0]
               /\ CASE r = "continue" ->
                         UNCHANGED <<mainPc, seqIdx, svcPc, outcome, result>>
                    [] r # "continue" /\ ~WaitFailed(r) ->
                         /\ svcPc' = [svcPc EXCEPT ![s] = "done"]
                         /\ outcome' = [outcome EXCEPT ![s] = r]
                         /\ seqIdx' = seqIdx + 1
                         /\ mainPc' = IF seqIdx + 1 > Len(sequentialServices)
                                      THEN "group_pick" ELSE "seq_create"
                         /\ UNCHANGED result
                    [] OTHER ->
                         /\ svcPc' = [svcPc EXCEPT ![s] = "done"]
                         /\ outcome' = [outcome EXCEPT ![s] = r]
                         /\ result' = [svc |-> s, kind |-> "wait"]
                         /\ mainPc' = "returned"
                         /\ UNCHANGED seqIdx
    /\ UNCHANGED <<services, helmNamespace, sequentialServices, groups,
                   groupsDone, curGroup, spawnIdx, wg, errors, triggers, lastTrigger>>

\* line 90: the next iteration of the range over the groups map (Go leaves
\* the iteration order of a map unspecified), with lines 93-94
GroupPick ==
    /\ mainPc = "group_pick"
    /\ \E g \in (DOMAIN groups) \ groupsDone :
         /\ curGroup' = g
         /\ errors' = <<>>
         /\ wg' = 0
         /\ spawnIdx' = 1
         /\ mainPc' = "group_spawn"
    /\ UNCHANGED <<services, helmNamespace, sequentialServices, groups, seqIdx,
                   groupsDone, result, svcPc, outcome, triggers, polled,
                   waits, lastTrigger>>

\* lines 96-113: wg.Add(1) and the go statement for one member
GroupSpawn ==
    /\ mainPc = "group_spawn"
    /\ LET s == groups[curGroup][spawnIdx].name
       IN /\ wg' = wgAdd(wg)
          /\ svcPc' = [svcPc EXCEPT ![s] = "spawned"]
          /\ spawnIdx' = spawnIdx + 1
          /\ mainPc' = IF spawnIdx + 1 > Len(groups[curGroup])
                       THEN "group_wait" ELSE "group_spawn"
    /\ UNCHANGED <<services, helmNamespace, sequentialServices, groups, seqIdx,
                   groupsDone, curGroup, errors, result, outcome,
                   triggers, polled, waits, lastTrigger>>

\* the channel made without a buffer
ErrorsCap_Unbuffered(members) == 0

\* line 94: make(chan error, len(groupServices))
ErrorsCap(members) == Len(members)

\* lines 99-105: a worker's createPipeline; on error it sends on the buffered
\* channel and returns (the deferred wg.Done). Nothing receives before
\* wg.Wait has returned, so a send on a full channel blocks for good.
WorkerCreate(s) ==
    /\ svcPc[s] = "spawned"
    /\ \E vr \in VarResponses : \E tr \in TriggerAnswers(vr) :
         LET r == createPipeline(vr, tr, helmNamespace)
         IN /\ triggers' = [triggers EXCEPT ![s] = @ + r.sent]
            /\ lastTrigger' = IF r.sent = 1 THEN r.request[1] ELSE lastTrigger
            /\ IF CreateFailed(r)
               THEN IF Len(errors) < ErrorsCap(groups[curGroup])
                    THEN /\ errors' = Append(errors, [svc |-> s, kind |-> "create"])
                         /\ wg' = wg - 1
                         /\ svcPc' = [svcPc EXCEPT ![s] = "done"]
                         /\ outcome' = [outcome EXCEPT ![s] = "trigger_error"]
                    ELSE /\ svcPc' = [svcPc EXCEPT ![s] = "blocked"]
                         /\ UNCHANGED <<errors, wg, outcome>>
               ELSE /\ svcPc' = [svcPc EXCEPT ![s] = "polling"]
                    /\ UNCHANGED <<errors, wg, outcome>>
    /\ UNCHANGED <<services, helmNamespace, sequentialServices, groups, mainPc,
                   seqIdx, groupsDone, curGroup, spawnIdx, result, polled, waits>>

\* lines 107-111 with one iteration of the loop at 245-284
WorkerPoll(s) ==
    /\ svcPc[s] = "polling"
    /\ mainPc \in {"group_spawn", "group_wait"}
    /\ \E resp \in PollResponses : \E late \in Lateness(resp) :
         LET r == waitForPipelineStep(resp, waits[s], late)
         IN /\ polled' = [polled EXCEPT ![s] = TRUE]
            /\ waits' = [waits EXCEPT ![s] = IF r = "continue" THEN @ + 1 ELSE 0]
            /\ CASE r = "continue" ->
                      UNCHANGED <<svcPc, outcome, errors, wg>>
                 [] r # "continue" /\ ~WaitFailed(r) ->
                      /\ svcPc' = [svcPc EXCEPT ![s] = "done"]
                      /\ outcome' = [outcome EXCEPT ![s] = r]
                      /\ wg' = wg - 1
                      /\ UNCHANGED errors
                 [] OTHER ->
                      IF Len(errors) < ErrorsCap(groups[curGroup])
                      THEN /\ svcPc' = [svcPc EXCEPT ![s] = "done"]
                           /\ outcome' = [outcome EXCEPT ![s] = r]
                           /\ errors' = Append(errors, [svc |-> s, kind |-> "wait"])
                           /\ wg' = wg - 1
                      ELSE /\ svcPc' = [svcPc EXCEPT ![s] = "blocked"]
                           /\ UNCHANGED <<outcome, errors, wg>>
    /\ UNCHANGED <<services, helmNamespace, sequentialServices, groups, mainPc,
                   seqIdx, groupsDone, curGroup, spawnIdx, result, triggers,
                   lastTrigger>>

\* the drain that returns the error sent last
FirstError_Latest(ch) == IF ch = <<>> THEN NoError ELSE ch[Len(ch)]

\* the value the range over the closed channel returns at lines 119-123
FirstError(ch) == IF ch = <<>> THEN NoError ELSE Head(ch)

\* lines 115-123: wg.Wait returns, the channel is closed and drained
GroupWait ==
    /\ mainPc = "group_wait"
    /\ WaitReturns(wg)
    /\ IF FirstError(errors) # NoError
       THEN /\ result' = FirstError(errors)
            /\ mainPc' = "returned"
            /\ UNCHANGED groupsDone
       ELSE /\ groupsDone' = groupsDone \cup {curGroup}
            /\ mainPc' = "group_pick"
            /\ UNCHANGED result
    /\ UNCHANGED <<services, helmNamespace, sequentialServices, groups, seqIdx,
                   curGroup, spawnIdx, wg, errors, svcPc, outcome,
                   triggers, polled, waits, lastTrigger>>

\* line 126: every group was processed
ReturnNil ==
    /\ mainPc = "group_pick"
    /\ (DOMAIN groups) \ groupsDone = {}
    /\ result' = NoError
    /\ mainPc' = "returned"
    /\ UNCHANGED <<services, helmNamespace, sequentialServices, groups, seqIdx,
                   groupsDone, curGroup, spawnIdx, wg, errors, svcPc, outcome,
                   triggers, polled, waits, lastTrigger>>

NextDispatch ==
    \/ Start
    \/ SeqCreate
    \/ SeqPoll
    \/ GroupPick
    \/ GroupSpawn
    \/ \E s \in SvcIds : WorkerCreate(s)
    \/ \E s \in SvcIds : WorkerPoll(s)
    \/ GroupWait
    \/ ReturnNil

(***************************************************************************)
(* One poll loop: waitForPipeline on its own                               *)
(***************************************************************************)
\* lines 238-243: the ticker and the start time
InitWait ==
    /\ waitPc = "polling"
    /\ ticks = 0
    /\ statuses = <<>>
    /\ sinceStart = 0
    /\ waitReturn = "none"

\* lines 245-284: one iteration, a status request, the switch, the ceiling
\* test and the wait for the next tick. The request times out after 30
\* seconds (line 236) and the ticker fires every 30 seconds (line 239), so an
\* iteration always completes.
Poll ==
    /\ waitPc = "polling"
    /\ ticks <= MaxDurationTicks + 1
    /\ \E resp \in PollResponses : \E late \in Lateness(resp) :
         LET r == waitForPipelineStep(resp, ticks, late)
         IN /\ statuses' = Append(statuses, resp)
            /\ sinceStart' = IF late THEN ticks + 1 ELSE ticks
            /\ IF r = "continue"
               THEN /\ ticks' = ticks + 1
                    /\ UNCHANGED <<waitPc, waitReturn>>
               ELSE /\ waitPc' = "returned"
                    /\ waitReturn' = r
                    /\ UNCHANGED ticks


(***************************************************************************)
(* Strings: a Go string is a sequence of one-character strings.           *)
(***************************************************************************)
Digits == <<"0", "1", "2", "3", "4", "5", "6", "7", "8", "9">>
Upper == <<"A", "B", "C", "D", "E", "F", "G", "H", "I", "J", "K", "L", "M",
           "N", "O", "P", "Q", "R", "S", "T", "U", "V", "W", "X", "Y", "Z">>
Lower == <<"a", "b", "c", "d", "e", "f", "g", "h", "i", "j", "k", "l", "m",
           "n", "o", "p", "q", "r", "s", "t", "u", "v", "w", "x", "y", "z">>
\* the characters of the model in byte order, as sort.Strings compares them
CharOrder == <<" ", "-", ".", "/">> \o Digits \o <<":">> \o Upper \o Lower

Range(f) == {f[i] : i \in DOMAIN f}
Code(c) == CHOOSE i \in DOMAIN CharOrder : CharOrder[i] = c
IsLetter(c) == c \in Range(Upper) \cup Range(Lower)
IsDigit(c) == c \in Range(Digits)

\* s[from..to], empty when to < from
Sub(s, from, to) == [i \in 1..(to - from + 1) |-> s[from + i - 1]]

\* strings.HasPrefix
HasPrefix(s, pre) == Len(s) >= Len(pre) /\ Sub(s, 1, Len(pre)) = pre

\* strings.Index, 1-based; 0 when sub does not occur in s
Index(s, sub) ==
    LET hits == {i \in 1..(Len(s) - Len(sub) + 1) : Sub(s, i, i + Len(sub) - 1) = sub}
    IN IF hits = {} THEN 0 ELSE CHOOSE i \in hits : \A j \in hits : i <= j

\* strings.Contains
Contains(s, sub) == Index(s, sub) # 0

\* strings.ReplaceAll for a one-character old and new
ReplaceAll(s, old, new) == [i \in DOMAIN s |-> IF s[i] = old THEN new ELSE s[i]]

\* the order of Go's < on strings (bytewise, a proper prefix first)
StrLess(a, b) ==
    \E k \in 1..(Len(b)) :
        /\ \A i \in 1..(k - 1) : i <= Len(a) /\ a[i] = b[i]
        /\ k - 1 <= Len(a)
        /\ (k > Len(a) \/ Code(a[k]) < Code(b[k]))

\* the elements of a set from the greatest down
RECURSIVE SortStrings_Descending(_)
SortStrings_Descending(S) ==
    IF S = {} THEN <<>>
    ELSE LET m == CHOOSE x \in S : \A y \in S \ {x} : StrLess(y, x)
         IN <<m>> \o SortStrings_Descending(S \ {m})

\* sort.Strings applied to the elements of a set without duplicates
RECURSIVE SortStrings(_)
SortStrings(S) ==
    IF S = {} THEN <<>>
    ELSE LET m == CHOOSE x \in S : \A y \in S \ {x} : StrLess(x, y)
         IN <<m>> \o SortStrings(S \ {m})

\* fmt.Sprintf("%d", n) for n >= 0
RECURSIVE Itoa(_)
Itoa(n) == IF n < 10 THEN <<Digits[n + 1]>>
           ELSE Itoa(n \div 10) \o <<Digits[(n % 10) + 1]>>

(***************************************************************************)
(* Task identifiers (git.GetCommitsBetween)                                *)
(***************************************************************************)
\* the number of letters, and of digits, that follow each other from p on
RECURSIVE LetterRun(_, _)
LetterRun(s, p) ==
    IF p > Len(s) \/ ~IsLetter(s[p]) THEN 0 ELSE 1 + LetterRun(s, p + 1)

RECURSIVE DigitRun(_, _)
DigitRun(s, p) ==
    IF p > Len(s) \/ ~IsDigit(s[p]) THEN 0 ELSE 1 + DigitRun(s, p + 1)

Min(a, b) == IF a < b THEN a ELSE b

\* the length of the match of [A-Za-z]{2,10}-\d{5,6} that starts at p, or 0.
\* The letters must be followed by the hyphen, so they are the whole run of
\* letters at p; the digits are matched greedily.
MatchAt(s, p) ==
    LET k == LetterRun(s, p)
        d == DigitRun(s, p + k + 1)
    IN IF k >= 2 /\ k <= 10 /\ p + k <= Len(s) /\ s[p + k] = "-" /\ d >= 5
       THEN k + 1 + Min(d, 6) ELSE 0

\* regexp.FindAllString(message, -1) for the unanchored pattern of
\* src/git/git.go:425: the successive leftmost non-overlapping matches
RECURSIVE FindAllFrom(_, _)
FindAllFrom(s, p) ==
    IF p > Len(s) THEN <<>>
    ELSE IF MatchAt(s, p) > 0
         THEN <<Sub(s, p, p + MatchAt(s, p) - 1)>> \o FindAllFrom(s, p + MatchAt(s, p))
         ELSE FindAllFrom(s, p + 1)

FindAllString(s) == FindAllFrom(s, 1)

\* regexp.FindStringSubmatch for the anchored pattern ^(...)-(...) of the
\* earlier git.go (src/unnamed/part_002:334): matches[0], or "" without match
FindAnchored(s) == IF MatchAt(s, 1) > 0 THEN Sub(s, 1, MatchAt(s, 1)) ELSE <<>>

(***************************************************************************)
(* Release notes (git.CreateReleaseNotes)                                  *)
(***************************************************************************)
Release == <<"r", "e", "l", "e", "a", "s", "e">>
Origin == <<"o", "r", "i", "g", "i", "n", "/">>

\* the keys of the dirs map
NoteServices == {<<"a">>, <<"b">>}

ReleaseBranch(sep, n) == Release \o <<sep>> \o Itoa(n)

\* the release branches origin may have, under either separator
RemoteBranches == {ReleaseBranch(sep, n) : sep \in {"-", "/"}, n \in 1..(MaxVersion - 1)}

\* commit subjects
Messages == <<
    <<"A", "B", "C", "-", "1", "2", "3", "4", "5", " ", "f", "i", "x">>,
    <<"n", "o", " ", "i", "d", " ", "h", "e", "r", "e">>,
    <<"x", "y", "-", "9", "9", "9", "9", "9", "z", " ", "m", "o", "r", "e">>,
    <<"f", "i", "x", " ", "A", "B", "C", "-", "1", "2", "3", "4", "5">>,
    <<"A", "B", "-", "1", "2", "3", "4", "5", " ",
      "C", "D", "-", "6", "7", "8", "9", "0", "1">> >>

\* what git log may list: the subjects of at most MaxCommits commits
CommitLists == UNION {[1..n -> DOMAIN Messages] : n \in 0..MaxCommits}

\* the logs the repositories of the release-notes run answer with
LogAnswers == {<<>>, <<1>>, <<3>>, <<5>>, <<1, 2, 3>>}

\* the release tags merged into the previous release branch
TagSets == {
    {},
    {Release \o <<"/", "1", ".", "0">>},
    {Release \o <<"-", "1", ".", "9">>, Release \o <<"-", "1", ".", "1", "0">>},
    {Release \o <<"/", "1", ".", "0">>, Release \o <<"-", "1", ".", "1">>},
    {<<"v", "9">>, Release \o <<"-", "1", ".", "1">>,
     Release \o <<"-", "1", ".", "0">>} }

URLPrefixes == {<<>>, <<"t", ":">>}

\* the lookup, had it tried the pattern as given only
findRefWithBothSeparators_PatternOnly(remote, pattern) ==
    IF pattern \in remote
    THEN [found |-> TRUE, name |-> pattern, checks |-> 1]
    ELSE [found |-> FALSE, name |-> <<>>, checks |-> 1]

\* findRefWithBothSeparators for refType "branch": refs are the branches of
\* origin; the names are tried in order with rev-parse --verify origin/<name>
findRefWithBothSeparators(remote, pattern) ==
    LET namesToTry ==
            IF Contains(pattern, <<"/">>)
            THEN <<ReplaceAll(pattern, "/", "-"), pattern>>
            ELSE IF Contains(pattern, <<"-">>)
                 THEN <<pattern, ReplaceAll(pattern, "-", "/")>>
                 ELSE <<pattern>>
        hits == {i \in DOMAIN namesToTry : namesToTry[i] \in remote}
        first == CHOOSE i \in hits : \A j \in hits : i <= j
    IN IF hits = {}
       THEN [found |-> FALSE, name |-> <<>>, checks |-> Len(namesToTry)]
       ELSE [found |-> TRUE, name |-> namesToTry[first], checks |-> first]

\* GetPreviousReleaseBranch: the branch found, or an error; checks counts the
\* git calls made
GetPreviousReleaseBranch(remote, current) ==
    LET previousVersion == current - 1
    IN IF previousVersion < 1
       THEN [err |-> TRUE, name |-> <<>>, checks |-> 0]
       ELSE LET f == findRefWithBothSeparators(
                        remote, Release \o <<"/">> \o Itoa(previousVersion))
            IN [err |-> ~f.found, name |-> f.name, checks |-> f.checks]

\* git tag --merged origin/<branch> <prefix>*
TagsMatching(tags, prefix) == {tg \in tags : HasPrefix(tg, prefix)}

\* the lookup that returns the first of the sorted tags
GetLastTagInBranch_First(tags) ==
    LET allTags == TagsMatching(tags, Release \o <<"/">>)
                      \cup TagsMatching(tags, Release \o <<"-">>)
        sorted == SortStrings(allTags)
    IN IF allTags = {}
       THEN [err |-> TRUE, tag |-> <<>>]
       ELSE [err |-> FALSE, tag |-> sorted[1]]

\* GetLastTagInBranch: both patterns are listed, the distinct union is sorted
\* with sort.Strings and its last element returned
GetLastTagInBranch(tags) ==
    LET allTags == TagsMatching(tags, Release \o <<"/">>)
                      \cup TagsMatching(tags, Release \o <<"-">>)
        sorted == SortStrings(allTags)
    IN IF allTags = {}
       THEN [err |-> TRUE, tag |-> <<>>]
       ELSE [err |-> FALSE, tag |-> sorted[Len(sorted)]]

\* taskPattern.FindAllString(message, -1) and, in the earlier git.go,
\* taskPattern.FindStringSubmatch(message), for each subject
Matches == [m \in DOMAIN Messages |-> FindAllString(Messages[m])]
MatchesAnchored == [m \in DOMAIN Messages |-> FindAnchored(Messages[m])]

\* the records GetCommitsBetween of src/git/git.go appends for one commit:
\* one per match of the unanchored pattern, then the commit itself
CommitRecords(sha, m) ==
    LET matches == Matches[m]
    IN [i \in DOMAIN matches |->
           [SHA |-> sha, Message |-> Messages[m], TaskID |-> matches[i]]]
       \o <<[SHA |-> sha, Message |-> Messages[m], TaskID |-> <<>>]>>

\* GetCommitsBetween of src/git/git.go over the commits git log lists
RECURSIVE GetCommitsFrom(_, _)
GetCommitsFrom(list, i) ==
    IF i > Len(list) THEN <<>>
    ELSE CommitRecords(i, list[i]) \o GetCommitsFrom(list, i + 1)

GetCommitsBetween(list) == GetCommitsFrom(list, 1)

\* GetCommitsBetween of the earlier git.go (src/unnamed/part_002): one record
\* per commit, its TaskID the match of the anchored pattern
GetCommitsBetweenAnchored(list) ==
    [i \in DOMAIN list |->
        [SHA |-> i, Message |-> Messages[list[i]],
         TaskID |-> MatchesAnchored[list[i]]]]

\* the task identifiers of a list of records (the loops at 550-556, 575-581)
TaskIDs(records) ==
    {records[i].TaskID : i \in {j \in DOMAIN records : records[j].TaskID # <<>>}}

TasksFound(records) ==
    Cardinality({j \in DOMAIN records : records[j].TaskID # <<>>})

\* the new tasks, had the previous release's tasks not been taken out
NewTasks_NoSubtract(between, inPrevious) == between

\* lines 601-607: the new tasks
NewTasks(between, inPrevious) == {id \in between : id \notin inPrevious}

NoArtifact == [kind |-> "none"]

\* the file without the line that says no previous release branch was found
MinimalArtifact_HeaderOnly(v) == [kind |-> "header", version |-> v]

\* lines 479-481
MinimalArtifact(v) == [kind |-> "minimal", version |-> v]

\* lines 645-691: the content, line by line
RenderArtifact(v, branch, newTasks, prefix, stats) ==
    LET taskIDs == SortStrings(newTasks)
        sortedServices == SortStrings(DOMAIN stats)
    IN [kind |-> "full",
        version |-> v,
        prevBranch |-> branch,
        taskLines |-> [i \in DOMAIN taskIDs |-> prefix \o taskIDs[i]],
        total |-> IF Len(taskIDs) > 0 THEN Len(taskIDs) ELSE -1,
        noNewTasksLine |-> Len(taskIDs) = 0,
        rows |-> [i \in DOMAIN sortedServices |->
                    [service |-> sortedServices[i],
                     LastTag |-> stats[sortedServices[i]].LastTag,
                     TotalCommits |-> stats[sortedServices[i]].TotalCommits,
                     TasksFound |-> stats[sortedServices[i]].TasksFound]]]

NoStats == [TotalCommits |-> 0, TasksFound |-> 0]

\* a failed step that ends the run
OnServiceError_Abort(step) == "done"

\* lines 505-508, 525-536, 543-546, 568-571: the warning and the continue
\* after a failed step of one service
OnServiceError(step) == "loop"

InitNotes ==
    /\ version \in 0..MaxVersion
    /\ taskURLPrefix \in URLPrefixes
    /\ nPc = "start"
    /\ prevBranch = <<>>
    /\ remaining = NoteServices
    /\ curSvc = <<>>
    /\ lastTagInPrevBranch = <<>>
    /\ mergedTags = {}
    /\ betweenStats = NoStats
    /\ allTasksBetweenReleases = {}
    /\ tasksInPreviousRelease = {}
    /\ serviceStats = <<>>
    /\ artifact = NoArtifact
    /\ notesResult = "none"

\* lines 464-484: the previous branch looked up in the directory the range
\* over dirs yields first (remote: the release branches its origin has), and
\* the minimal file when there is none
NotesStart ==
    /\ nPc = "start"
    /\ \E remote \in SUBSET RemoteBranches, writeOk \in BOOLEAN :
         LET r == GetPreviousReleaseBranch(remote, version)
         IN /\ IF r.err
               THEN /\ artifact' = IF writeOk THEN MinimalArtifact(version) ELSE NoArtifact
                    /\ notesResult' = IF writeOk THEN "nil" ELSE "write_error"
                    /\ nPc' = "done"
                    /\ UNCHANGED prevBranch
               ELSE /\ writeOk
                    /\ prevBranch' = r.name
                    /\ nPc' = "loop"
                    /\ UNCHANGED <<artifact, notesResult>>
    /\ UNCHANGED <<version, taskURLPrefix, remaining, curSvc,
                   lastTagInPrevBranch, mergedTags, betweenStats, allTasksBetweenReleases,
                   tasksInPreviousRelease, serviceStats>>

\* lines 500-509: the next service of the range and its branch start commit
SvcBranchStart ==
    /\ nPc = "loop"
    /\ \E s \in remaining, gitOk \in BOOLEAN :
         /\ remaining' = remaining \ {s}
         /\ IF gitOk
            THEN /\ curSvc' = s
                 /\ nPc' = "last_tag"
            ELSE /\ nPc' = OnServiceError("branch_start")
                 /\ UNCHANGED curSvc
    /\ UNCHANGED <<version, taskURLPrefix, prevBranch,
                   lastTagInPrevBranch, mergedTags, betweenStats, allTasksBetweenReleases,
                   tasksInPreviousRelease, serviceStats, artifact, notesResult>>

\* lines 511-538: the marker and its commit
SvcLastTag ==
    /\ nPc = "last_tag"
    /\ \E tags \in TagSets, resolveOk \in BOOLEAN :
         LET r == GetLastTagInBranch(tags)
         IN IF resolveOk
            THEN /\ lastTagInPrevBranch' = IF r.err THEN Origin \o prevBranch ELSE r.tag
                 /\ mergedTags' = tags
                 /\ nPc' = "between"
                 /\ UNCHANGED curSvc
            ELSE /\ nPc' = OnServiceError("marker")
                 /\ curSvc' = <<>>
                 /\ UNCHANGED <<lastTagInPrevBranch, mergedTags>>
    /\ UNCHANGED <<version, taskURLPrefix, prevBranch,
                   remaining, betweenStats, allTasksBetweenReleases,
                   tasksInPreviousRelease, serviceStats, artifact, notesResult>>

\* lines 540-563: the commits from the marker to HEAD
SvcBetween ==
    /\ nPc = "between"
    /\ \E gitOk \in BOOLEAN :
         IF gitOk
         THEN \E list \in LogAnswers :
                LET found == GetCommitsBetween(list)
                IN /\ allTasksBetweenReleases' =
                          allTasksBetweenReleases \cup TaskIDs(found)
                   /\ betweenStats' = [TotalCommits |-> Len(found),
                                       TasksFound |-> TasksFound(found)]
                   /\ nPc' = "in_prev"
                   /\ UNCHANGED <<curSvc, lastTagInPrevBranch, mergedTags>>
         ELSE /\ nPc' = OnServiceError("between")
              /\ curSvc' = <<>>
              /\ lastTagInPrevBranch' = <<>>
              /\ mergedTags' = {}
              /\ UNCHANGED <<allTasksBetweenReleases, betweenStats>>
    /\ UNCHANGED <<version, taskURLPrefix, prevBranch,
                   remaining, tasksInPreviousRelease, serviceStats, artifact,
                   notesResult>>

\* lines 565-598: the commits of the previous release, and the service's row
SvcInPrev ==
    /\ nPc = "in_prev"
    /\ \E gitOk \in BOOLEAN :
         IF gitOk
         THEN \E list \in LogAnswers :
                LET found == GetCommitsBetween(list)
                IN /\ tasksInPreviousRelease' =
                          tasksInPreviousRelease \cup TaskIDs(found)
                   /\ serviceStats' =
                          [x \in (DOMAIN serviceStats) \cup {curSvc} |->
                              IF x = curSvc
                              THEN [TotalCommits |-> betweenStats.TotalCommits,
                                    TasksFound |-> betweenStats.TasksFound,
                                    LastTag |-> lastTagInPrevBranch]
                              ELSE serviceStats[x]]
                   /\ nPc' = "loop"
         ELSE /\ nPc' = OnServiceError("in_prev")
              /\ UNCHANGED <<tasksInPreviousRelease, serviceStats>>
    /\ curSvc' = <<>>
    /\ lastTagInPrevBranch' = <<>>
    /\ mergedTags' = {}
    /\ betweenStats' = NoStats
    /\ UNCHANGED <<version, taskURLPrefix, prevBranch,
                   remaining, allTasksBetweenReleases, artifact, notesResult>>

\* lines 601-700: the difference, the content and the file
NotesRender ==
    /\ nPc = "loop"
    /\ remaining = {}
    /\ \E writeOk \in BOOLEAN :
         /\ artifact' =
               IF writeOk
               THEN RenderArtifact(version, prevBranch,
                        NewTasks(allTasksBetweenReleases, tasksInPreviousRelease),
                        taskURLPrefix, serviceStats)
               ELSE NoArtifact
         /\ notesResult' = IF writeOk THEN "nil" ELSE "write_error"
    /\ nPc' = "done"
    /\ UNCHANGED <<version, taskURLPrefix, prevBranch,
                   remaining, curSvc, lastTagInPrevBranch, mergedTags, betweenStats,
                   allTasksBetweenReleases, tasksInPreviousRelease, serviceStats>>

NextNotes ==
    \/ NotesStart
    \/ SvcBranchStart
    \/ SvcLastTag
    \/ SvcBetween
    \/ SvcInPrev
    \/ NotesRender

(***************************************************************************)
(* Descriptor rewrite (UpdatePomFiles, UpdatePomFile).  The text of a      *)
(* descriptor is a sequence of lines, a line a sequence of symbols: "<",   *)
(* "/", ">", " ", "!--", "--", and element names and values, which hold    *)
(* none of the characters the code searches for.                           *)
(***************************************************************************)
Lt == <<"<">>
Gt == <<">">>
LtSlash == <<"<", "/">>
OpenTag(name) == <<"<", name, ">">>
CloseTag(name) == <<"<", "/", name, ">">>
ProjectStart == <<"<", "project">>
VersionOpen == OpenTag("version")
VersionClose == CloseTag("version")

\* <app.version> and </app.version>: a name is as many symbols as the
\* patterns looked for in it need
AppVersionOpen == <<"<", "app.", "version", ">">>
AppVersionClose == <<"<", "/", "app.", "version", ">">>

\* the lines descriptors are made of
PomLines == <<
    OpenTag("project"),
    OpenTag("parent"),
    CloseTag("parent"),
    OpenTag("properties"),
    CloseTag("properties"),
    <<" ">> \o VersionOpen \o <<"1">> \o VersionClose,
    OpenTag("dependencies"),
    AppVersionOpen \o <<"1">> \o AppVersionClose,
    VersionOpen \o <<"1", "<", "!--">> \o OpenTag("parent") \o <<"--", ">">>
        \o VersionClose,
    AppVersionOpen \o AppVersionClose,
    AppVersionClose \o <<" ", "<", "!--", "end", "--", ">">> >>

\* a single-line element
Field(name, value) == OpenTag(name) \o <<value>> \o CloseTag(name)

\* whole descriptors: a module that takes its version from its parent and
\* declares a dependency; one whose version follows its licenses and
\* developers; one with its own version and a properties block; one whose
\* parent block and empty properties block each take one line; one whose
\* properties block sets <project.enc>, as in project.build.sourceEncoding
SampleDescriptors == {
    << OpenTag("project"),
       OpenTag("parent"), PomLines[6], CloseTag("parent"),
       Field("artifactId", "m"),
       OpenTag("dependencies"), OpenTag("dependency"), PomLines[6],
       CloseTag("dependency"), CloseTag("dependencies"),
       CloseTag("project") >>,
    << OpenTag("project"),
       OpenTag("parent"), PomLines[6], CloseTag("parent"),
       OpenTag("licenses"), OpenTag("license"),
       CloseTag("license"), CloseTag("licenses"),
       OpenTag("developers"), OpenTag("developer"),
       CloseTag("developer"), CloseTag("developers"),
       PomLines[6],
       CloseTag("project") >>,
    << OpenTag("project"),
       OpenTag("parent"), PomLines[6], CloseTag("parent"),
       PomLines[6],
       OpenTag("properties"), PomLines[8], PomLines[10], CloseTag("properties"),
       OpenTag("dependencies"), OpenTag("dependency"), PomLines[6],
       CloseTag("dependency"), CloseTag("dependencies"),
       CloseTag("project") >>,
    << OpenTag("project"),
       OpenTag("parent") \o Field("version", "1") \o CloseTag("parent"),
       PomLines[6],
       OpenTag("properties") \o CloseTag("properties"),
       CloseTag("project") >>,
    << OpenTag("project"),
       OpenTag("dependencies"), CloseTag("dependencies"),
       OpenTag("properties"),
       <<"<", "project", ".enc", ">", "UTF-8", "<", "/", "project", ".enc", ">">>,
       CloseTag("properties"),
       PomLines[6],
       CloseTag("project") >> }

RootPath == <<"pom.xml">>
ModulePath == <<"module", "pom.xml">>

\* filepath.Walk lists a directory's own files before its subdirectories'
WalkOrder == <<RootPath, ModulePath>>

TargetVersions == {<<"12">>}
PropertyPatterns == {<<"app.">>, <<>>}

\* the descriptors of n lines
PomTexts(n) == [1..n -> Range(PomLines)]

\* the trees of one descriptor, at the top of dir or in a module directory
OnePomTrees ==
    {[p \in {path} |-> text] :
        path \in {RootPath, ModulePath},
        text \in UNION {PomTexts(n) : n \in 1..MaxLines}}

\* the trees of a root descriptor of i lines and a whole module descriptor
TwoPomTrees(i) ==
    {(RootPath :> a) @@ (ModulePath :> b) :
        a \in PomTexts(i), b \in SampleDescriptors}

\* the trees of one whole descriptor
SampleTrees ==
    {[p \in {path} |-> text] :
        path \in {RootPath, ModulePath}, text \in SampleDescriptors}

\* a directory without a pom.xml
NoPomTree == <<>>

\* the trees of at most MaxLines descriptor lines, those of a whole
\* descriptor, and the tree without a descriptor
PomTrees ==
    OnePomTrees \cup UNION {TwoPomTrees(i) : i \in 1..(MaxLines - 1)}
        \cup SampleTrees \cup {NoPomTree}

\* strings.TrimSpace
TrimSpace(s) ==
    LET inked == {i \in DOMAIN s : s[i] # " "}
    IN IF inked = {} THEN <<>>
       ELSE Sub(s, CHOOSE i \in inked : \A j \in inked : i <= j,
                   CHOOSE i \in inked : \A j \in inked : i >= j)

\* strings.Index, 0-based, -1 when sub does not occur
GoIndex(s, sub) == Index(s, sub) - 1

\* s[a:b]
Slice(s, a, b) == Sub(s, a + 1, b)

\* the replacement, had it been made in the trimmed line
Replace_Trimmed(s, old, new) ==
    LET u == TrimSpace(s)
        i == Index(u, old)
    IN IF i = 0 THEN s
       ELSE Sub(u, 1, i - 1) \o new \o Sub(u, i + Len(old), Len(u))

\* strings.Replace(s, old, new, 1) for a non-empty old
Replace(s, old, new) ==
    LET i == Index(s, old)
    IN IF i = 0 THEN s
       ELSE Sub(s, 1, i - 1) \o new \o Sub(s, i + Len(old), Len(s))

\* main.go:769 and 787
MaxTagsAfterProject == 4

\* lines 714-724
ScanStart ==
    [insideProject |-> FALSE, insideParent |-> FALSE, insideProperties |-> FALSE,
     rootVersionUpdated |-> FALSE, parentVersionUpdated |-> FALSE,
     tagsAfterProject |-> 0]

\* the test of line 807, had it let closing tags through
IsClosingTag_Never(tagContent) == FALSE

\* line 807: strings.HasPrefix(tagContent, "/")
IsClosingTag(tagContent) == HasPrefix(tagContent, <<"/">>)

\* line 709
NewVersion(ver) == ver \o <<".0">>

\* lines 726-822: one iteration of the loop over the lines; st holds the
\* flags and counters, and the result adds the line as the iteration leaves it
ScanLine(st, line, isRootPom, ver, pattern) ==
    LET trimmed == TrimSpace(line)
        insideProject == st.insideProject \/ Contains(line, ProjectStart)
        tags0 == IF Contains(line, ProjectStart) THEN 0 ELSE st.tagsAfterProject
        insideParent ==
            IF Contains(line, OpenTag("parent")) THEN TRUE
            ELSE IF Contains(line, CloseTag("parent")) THEN FALSE
            ELSE st.insideParent
        insideProperties ==
            IF Contains(line, OpenTag("properties")) THEN TRUE
            ELSE IF Contains(line, CloseTag("properties")) THEN FALSE
            ELSE st.insideProperties
        tagsAfterProject ==
            IF /\ insideProject /\ ~insideParent /\ ~insideProperties
               /\ Contains(trimmed, Lt) /\ ~Contains(trimmed, LtSlash)
               /\ ~Contains(trimmed, VersionOpen)
            THEN tags0 + 1 ELSE tags0
        \* lines 758-794
        start == GoIndex(trimmed, VersionOpen) + Len(VersionOpen)
        end == GoIndex(trimmed, VersionClose)
        hasVersion ==
            /\ Contains(trimmed, VersionOpen) /\ Contains(trimmed, VersionClose)
            /\ start > Len(VersionOpen) - 1 /\ end > start
        current == Slice(trimmed, start, end)
        versionLine ==
            Replace(line, VersionOpen \o current \o VersionClose,
                    VersionOpen \o NewVersion(ver) \o VersionClose)
        case1 ==
            /\ hasVersion /\ isRootPom
            /\ insideProject /\ ~insideParent /\ ~insideProperties
            /\ ~st.rootVersionUpdated /\ tagsAfterProject <= MaxTagsAfterProject
        case2a == hasVersion /\ ~isRootPom /\ insideParent /\ ~st.parentVersionUpdated
        case2b ==
            /\ hasVersion /\ ~isRootPom
            /\ insideProject /\ ~insideParent /\ ~insideProperties
            /\ ~st.rootVersionUpdated /\ tagsAfterProject <= MaxTagsAfterProject
        \* lines 796-821
        startTag == GoIndex(trimmed, Lt)
        endTag == GoIndex(trimmed, Gt)
        tagContent == Slice(trimmed, startTag + 1, endTag)
        valueStart == endTag + 1
        valueEnd == GoIndex(Slice(trimmed, valueStart, Len(trimmed)), Lt)
        oldValue == Slice(trimmed, valueStart, valueStart + valueEnd)
        case3 ==
            /\ insideProperties /\ Contains(trimmed, pattern)
            /\ Contains(trimmed, Lt) /\ Contains(trimmed, Gt)
            /\ startTag >= 0 /\ endTag > startTag
            /\ Contains(tagContent, pattern) /\ ~IsClosingTag(tagContent)
            /\ valueEnd > 0
        newLine ==
            IF case3
            THEN Replace(line, Gt \o oldValue \o Lt,
                         Gt \o NewVersion(ver) \o Lt)
            ELSE IF case1 \/ case2a \/ case2b THEN versionLine
            ELSE line
    IN [insideProject |-> insideProject,
        insideParent |-> insideParent,
        insideProperties |-> insideProperties,
        rootVersionUpdated |-> st.rootVersionUpdated \/ case1 \/ case2b,
        parentVersionUpdated |-> st.parentVersionUpdated \/ case2a,
        tagsAfterProject |-> tagsAfterProject,
        line |-> newLine]

\* the loop of lines 726-822 from line i on
RECURSIVE ScanFrom(_, _, _, _, _, _)
ScanFrom(st, lines, i, isRootPom, ver, pattern) ==
    IF i > Len(lines) THEN <<>>
    ELSE LET next == ScanLine(st, lines[i], isRootPom, ver, pattern)
         IN <<next.line>> \o ScanFrom(next, lines, i + 1, isRootPom, ver, pattern)

\* UpdatePomFile: the lines written back for the lines read
UpdatePomFile(lines, ver, isRootPom, pattern) ==
    ScanFrom(ScanStart, lines, 1, isRootPom, ver, pattern)

\* line 690: filepath.Dir(pomFile) == dir
IsRootPom(path) == Len(path) = 1

\* UpdatePomFiles, lines 688-695: the descriptors in the order of the walk,
\* each rewritten in turn, up to the one (failing) that cannot be read or
\* written; failing = 0 when all can
WrittenPaths(files, failing) ==
    {WalkOrder[k] : k \in {j \in DOMAIN WalkOrder :
                             /\ WalkOrder[j] \in DOMAIN files
                             /\ (failing = 0 \/ j < failing)}}

UpdatePomFiles(files, ver, pattern, failing) ==
    [path \in DOMAIN files |->
        IF path \in WrittenPaths(files, failing)
        THEN UpdatePomFile(files[path], ver, IsRootPom(path), pattern)
        ELSE files[path]]

InitPom ==
    /\ pomFiles \in PomTrees
    /\ pomVersion \in TargetVersions
    /\ propertyPattern \in PropertyPatterns
    /\ pomCalls = 0
    /\ pomInput = pomFiles
    /\ pomFirst = <<>>
    /\ pomErr = FALSE

\* the first call of UpdatePomFiles(dir, version, propertyPattern)
UpdateTree ==
    /\ pomCalls = 0
    /\ \E failing \in {0} \cup {k \in DOMAIN WalkOrder : WalkOrder[k] \in DOMAIN pomFiles} :
         /\ pomFiles' = UpdatePomFiles(pomFiles, pomVersion, propertyPattern, failing)
         /\ pomErr' = (failing # 0)
    /\ pomFirst' = pomFiles'
    /\ pomCalls' = 1
    /\ UNCHANGED <<pomVersion, propertyPattern, pomInput>>

\* a second call with the same arguments, after a first that succeeded
UpdateTreeAgain ==
    /\ pomCalls = 1
    /\ ~pomErr
    /\ pomFiles' = UpdatePomFiles(pomFiles, pomVersion, propertyPattern, 0)
    /\ pomCalls' = 2
    /\ UNCHANGED <<pomVersion, propertyPattern, pomInput, pomFirst, pomErr>>

NextPom ==
    \/ UpdateTree
    \/ UpdateTreeAgain

(***************************************************************************)
(* The phases of main: each is a loop over the services, phase 4 rewrites  *)
(* the descriptors of one service after the other; log.Fatalf ends the     *)
(* process.                                                                *)
(***************************************************************************)
\* main.go:535: the property pattern of main's copy of the rewrite is the
\* fixed text "proezd"; "app." stands for it
MainPattern == <<"app.">>

\* the descriptors under a service directory: a root and a module
FleetTrees ==
    {(RootPath :> d) @@ (ModulePath :> d) : d \in SampleDescriptors}

\* main.go:56-185: the loops of main in the order of the text: phases 1 to
\* 5, the display of the diffs, phases 6 and 7, the prompt, phase 8
Phases == <<"clean", "develop", "pull", "pom", "branch", "diff", "commit",
            "tag", "confirm", "push">>

\* what follows the loop p
After(p) ==
    LET i == CHOOSE k \in DOMAIN Phases : Phases[k] = p
    IN IF i = Len(Phases) THEN "done" ELSE Phases[i + 1]

InitFleet ==
    /\ fleetPc = Phases[1]
    /\ fleetIdx = 1
    /\ fleetFiles \in [SvcIds -> FleetTrees]
    /\ fleetInput = fleetFiles
    /\ fleetVersion \in TargetVersions
    /\ fleetSteps = [s \in SvcIds |-> {}]
    /\ fleetConfirm = "none"

\* one iteration of a loop other than phase 4: the git commands of the
\* phase for the service in hand; a failed command, or the operator's no to
\* the cleaning of a working copy, ends the process with log.Fatalf. A
\* failure of the diff display is ignored (lines 135-138).
FleetStep ==
    /\ fleetPc \in Range(Phases) \ {"pom", "confirm"}
    /\ \E ok \in IF fleetPc = "diff" THEN {TRUE} ELSE BOOLEAN :
         IF ok
         THEN /\ fleetSteps' = [fleetSteps EXCEPT ![fleetIdx] = @ \cup {fleetPc}]
              /\ IF fleetIdx = NumServices
                 THEN /\ fleetPc' = After(fleetPc)
                      /\ fleetIdx' = 1
                 ELSE /\ fleetIdx' = fleetIdx + 1
                      /\ UNCHANGED fleetPc
         ELSE /\ fleetPc' = "fatal"
              /\ UNCHANGED <<fleetIdx, fleetSteps>>
    /\ UNCHANGED <<fleetFiles, fleetInput, fleetVersion, fleetConfirm>>

\* main.go:104-111: one iteration of phase 4; an error of updatePomFiles
\* ends the process with log.Fatalf
FleetUpdate ==
    /\ fleetPc = "pom"
    /\ \E failing \in {0} \cup DOMAIN WalkOrder :
         /\ fleetFiles' = [fleetFiles EXCEPT ![fleetIdx] =
                UpdatePomFiles(@, fleetVersion, MainPattern, failing)]
         /\ IF failing # 0
            THEN /\ fleetPc' = "fatal"
                 /\ UNCHANGED <<fleetIdx, fleetSteps>>
            ELSE /\ fleetSteps' = [fleetSteps EXCEPT ![fleetIdx] = @ \cup {"pom"}]
                 /\ IF fleetIdx = NumServices
                    THEN /\ fleetPc' = After("pom")
                         /\ fleetIdx' = 1
                    ELSE /\ fleetIdx' = fleetIdx + 1
                         /\ UNCHANGED fleetPc
    /\ UNCHANGED <<fleetInput, fleetVersion, fleetConfirm>>

\* main.go:172-176: the prompt before the push. ReadString returns with the
\* line the operator entered or, when the standard input has ended, with an
\* error; main discards both results and goes on.
FleetConfirm ==
    /\ fleetPc = "confirm"
    /\ \E read \in {"line", "eof"} : fleetConfirm' = read
    /\ fleetPc' = After("confirm")
    /\ UNCHANGED <<fleetIdx, fleetFiles, fleetInput, fleetVersion, fleetSteps>>

NextFleet ==
    \/ FleetStep
    \/ FleetUpdate
    \/ FleetConfirm

(***************************************************************************)
(* git.GetPreviousReleaseBranch and git.GetCommitsBetween on their own     *)
(***************************************************************************)
NotCalled == [called |-> FALSE]

InitBranch ==
    /\ currentVersion \in 0..MaxVersion
    /\ refs \in SUBSET RemoteBranches
    /\ branchResult = NotCalled
    /\ log = <<>>
    /\ commits = NotCalled
    /\ commitsAnchored = NotCalled
    /\ dirRefs = <<>>
    /\ firstDir = <<>>

InitExtract ==
    /\ currentVersion = 0
    /\ refs = {}
    /\ branchResult = NotCalled
    /\ log \in CommitLists
    /\ commits = NotCalled
    /\ commitsAnchored = NotCalled
    /\ dirRefs = <<>>
    /\ firstDir = <<>>

\* a call of GetPreviousReleaseBranch(dir, currentVersion)
PreviousReleaseBranch ==
    /\ branchResult = NotCalled
    /\ branchResult' =
          [called |-> TRUE, r |-> GetPreviousReleaseBranch(refs, currentVersion)]
    /\ UNCHANGED <<currentVersion, refs, log, commits, commitsAnchored,
                   dirRefs, firstDir>>

\* a call of GetCommitsBetween(dir, fromRef, toRef) on a range git log
\* lists as log, by either version of the function
CommitsBetween ==
    /\ commits = NotCalled
    /\ commits' = [called |-> TRUE, r |-> GetCommitsBetween(log)]
    /\ commitsAnchored' = [called |-> TRUE, r |-> GetCommitsBetweenAnchored(log)]
    /\ UNCHANGED <<currentVersion, refs, branchResult, log, dirRefs, firstDir>>

\* the repositories of a release-notes run before CreateReleaseNotes looks
\* for the previous release branch
InitLineage ==
    /\ currentVersion \in 0..MaxVersion
    /\ refs = {}
    /\ branchResult = NotCalled
    /\ log = <<>>
    /\ commits = NotCalled
    /\ commitsAnchored = NotCalled
    /\ dirRefs \in [NoteServices -> SUBSET RemoteBranches]
    /\ firstDir = <<>>

\* git.go:465-472: the first iteration of the range over the dirs map (Go
\* leaves the iteration order of a map unspecified) gives firstDir, the
\* repository GetPreviousReleaseBranch is asked about
FirstDirLookup ==
    /\ branchResult = NotCalled
    /\ \E s \in NoteServices :
         /\ firstDir' = s
         /\ branchResult' =
               [called |-> TRUE,
                r |-> GetPreviousReleaseBranch(dirRefs[s], currentVersion)]
    /\ UNCHANGED <<currentVersion, refs, log, commits, commitsAnchored, dirRefs>>

(***************************************************************************)
(* Specifications: each component runs with the others at rest.            *)
(***************************************************************************)
GitIdle ==
    /\ currentVersion = 0
    /\ refs = {}
    /\ branchResult = NotCalled
    /\ log = <<>>
    /\ commits = NotCalled
    /\ commitsAnchored = NotCalled
    /\ dirRefs = <<>>
    /\ firstDir = <<>>

DispatchIdle ==
    /\ services = <<>>
    /\ helmNamespace = ""
    /\ sequentialServices = <<>>
    /\ groups = <<>>
    /\ mainPc = "idle"
    /\ seqIdx = 0
    /\ groupsDone = {}
    /\ curGroup = ""
    /\ spawnIdx = 0
    /\ wg = 0
    /\ errors = <<>>
    /\ result = NotReturned
    /\ svcPc = <<>>
    /\ outcome = <<>>
    /\ triggers = <<>>
    /\ polled = <<>>
    /\ waits = <<>>
    /\ lastTrigger = [precheck |-> "none", override |-> FALSE]

NotesIdle ==
    /\ version = 0
    /\ taskURLPrefix = <<>>
    /\ nPc = "idle"
    /\ prevBranch = <<>>
    /\ remaining = {}
    /\ curSvc = <<>>
    /\ lastTagInPrevBranch = <<>>
    /\ mergedTags = {}
    /\ betweenStats = NoStats
    /\ allTasksBetweenReleases = {}
    /\ tasksInPreviousRelease = {}
    /\ serviceStats = <<>>
    /\ artifact = NoArtifact
    /\ notesResult = "none"

WaitIdle ==
    /\ waitPc = "idle"
    /\ ticks = 0
    /\ statuses = <<>>
    /\ sinceStart = 0
    /\ waitReturn = "none"

FleetIdle ==
    /\ fleetPc = "idle"
    /\ fleetIdx = 0
    /\ fleetFiles = <<>>
    /\ fleetInput = <<>>
    /\ fleetVersion = <<>>
    /\ fleetSteps = <<>>
    /\ fleetConfirm = "none"

PomIdle ==
    /\ pomFiles = <<>>
    /\ pomVersion = <<>>
    /\ propertyPattern = <<>>
    /\ pomCalls = 0
    /\ pomInput = <<>>
    /\ pomFirst = <<>>
    /\ pomErr = FALSE

Init == InitDispatch /\ NotesIdle /\ GitIdle /\ PomIdle /\ WaitIdle /\ FleetIdle

Next == NextDispatch /\ UNCHANGED <<nvars, gvars, pvars, wvars, fvars>>

Spec == Init /\ [][Next]_vars

InitN == InitNotes /\ DispatchIdle /\ GitIdle /\ PomIdle /\ WaitIdle /\ FleetIdle

NextN == NextNotes /\ UNCHANGED <<dvars, gvars, pvars, wvars, fvars>>

SpecNotes == InitN /\ [][NextN]_vars

InitB == InitBranch /\ DispatchIdle /\ NotesIdle /\ PomIdle /\ WaitIdle /\ FleetIdle

NextB == PreviousReleaseBranch /\ UNCHANGED <<dvars, nvars, pvars, wvars, fvars>>

SpecBranch == InitB /\ [][NextB]_vars

InitX == InitExtract /\ DispatchIdle /\ NotesIdle /\ PomIdle /\ WaitIdle /\ FleetIdle

NextX == CommitsBetween /\ UNCHANGED <<dvars, nvars, pvars, wvars, fvars>>

SpecExtract == InitX /\ [][NextX]_vars

InitP == InitPom /\ DispatchIdle /\ NotesIdle /\ GitIdle /\ WaitIdle /\ FleetIdle

NextP == NextPom /\ UNCHANGED <<dvars, nvars, gvars, wvars, fvars>>

SpecPom == InitP /\ [][NextP]_vars

InitW == InitWait /\ DispatchIdle /\ NotesIdle /\ GitIdle /\ PomIdle /\ FleetIdle

NextW == Poll /\ UNCHANGED <<dvars, nvars, gvars, pvars, fvars>>

\* a started iteration completes: the loop is never suspended
SpecWait == InitW /\ [][NextW]_vars /\ WF_vars(NextW)

InitF == InitFleet /\ DispatchIdle /\ NotesIdle /\ GitIdle /\ PomIdle /\ WaitIdle

NextF == NextFleet /\ UNCHANGED <<dvars, nvars, gvars, pvars, wvars>>

SpecFleet == InitF /\ [][NextF]_vars

InitL == InitLineage /\ DispatchIdle /\ NotesIdle /\ PomIdle /\ WaitIdle /\ FleetIdle

NextL == FirstDirLookup /\ UNCHANGED <<dvars, nvars, pvars, wvars, fvars>>

SpecLineage == InitL /\ [][NextL]_vars

(***************************************************************************)
(* Properties of the pipeline dispatcher                                   *)
(***************************************************************************)
InFlight(s) == svcPc[s] \in {"spawned", "polling"}
Dispatched(s) == svcPc[s] # "idle" \/ triggers[s] > 0
Succeeded(s) ==
    svcPc[s] = "done" /\ outcome[s] = "success" /\ triggers[s] = 1 /\ polled[s]
GroupMembers == UNION {Members(g) : g \in DOMAIN groups}

\* C1: sequential-class services are dispatched one at a time in input
\* order: whenever the dispatch of a sequential service has begun, every
\* sequential service before it in the input was triggered once and polled
\* until a poll observed success, and the sequential list keeps input order.
C1_SequentialInOrder ==
    \A i, j \in DOMAIN sequentialServices :
        i < j =>
          /\ sequentialServices[i].name < sequentialServices[j].name
          /\ Dispatched(sequentialServices[j].name)
                => Succeeded(sequentialServices[i].name)

C1_Witness ==
    /\ Len(sequentialServices) >= 2
    /\ triggers[sequentialServices[2].name] = 1
    /\ svcPc[sequentialServices[2].name] = "polling"

\* C2: the group phase begins only after every sequential-class service
\* succeeded: a group member is dispatched only if every sequential service
\* was triggered and observed with status success, so after a sequential
\* failure no group member is ever dispatched.
C2_GroupsAfterSequential ==
    \A m \in GroupMembers :
        Dispatched(m) => \A s \in SeqNames : Succeeded(s)

C2_Witness ==
    /\ SeqNames # {}
    /\ \E m \in GroupMembers : triggers[m] = 1

C4_OneGroupAtATime ==
    \A g \in DOMAIN groups : \A m \in Members(g) :
        /\ InFlight(m) =>
              /\ g = curGroup
              /\ \A h \in (DOMAIN groups) \ {g} : \A n \in Members(h) :
                    /\ ~InFlight(n)
                    /\ Dispatched(n) => h \in groupsDone
        /\ (Dispatched(m) /\ g # curGroup) =>
              /\ g \in groupsDone
              /\ \A n \in Members(g) : svcPc[n] = "done"

C4_Witness ==
    /\ groupsDone # {}
    /\ curGroup \notin groupsDone
    /\ \E m \in Members(curGroup) : svcPc[m] = "polling"

(***************************************************************************)
(* Properties of the release notes                                         *)
(***************************************************************************)
\* the task identifiers the artifact lists, one per task line
ArtifactTasks ==
    [i \in DOMAIN artifact.taskLines |->
        Sub(artifact.taskLines[i], Len(taskURLPrefix) + 1, Len(artifact.taskLines[i]))]

\* C6: the task list of the artifact is exactly between - inPrevious: an
\* identifier in both sets is never listed, an identifier only in between is
\* listed exactly once, and the total counts the listed identifiers.
C6_DeltaIsSetDifference ==
    artifact.kind = "full" =>
        /\ Range(ArtifactTasks) = allTasksBetweenReleases \ tasksInPreviousRelease
        /\ \A id \in allTasksBetweenReleases \cap tasksInPreviousRelease :
              \A i \in DOMAIN ArtifactTasks : ArtifactTasks[i] # id
        /\ \A id \in allTasksBetweenReleases \ tasksInPreviousRelease :
              Cardinality({i \in DOMAIN ArtifactTasks : ArtifactTasks[i] = id}) = 1
        /\ artifact.noNewTasksLine = (allTasksBetweenReleases \subseteq tasksInPreviousRelease)
        /\ ~artifact.noNewTasksLine => artifact.total = Len(ArtifactTasks)

\* an artifact of two processed services which found more task references
\* than it lists, with an identifier taken out and an identifier kept
C6_Witness ==
    /\ artifact.kind = "full"
    /\ DOMAIN serviceStats = NoteServices
    /\ allTasksBetweenReleases \cap tasksInPreviousRelease # {}
    /\ Len(artifact.taskLines) >= 1
    /\ \A s \in NoteServices : serviceStats[s].TasksFound >= 2

(***************************************************************************)
(* Properties of the task-identifier extraction                            *)
(***************************************************************************)
\* the records with a task identifier that GetCommitsBetween returned for
\* the i-th commit of the log
TaskRecords(records, i) ==
    {j \in DOMAIN records : records[j].SHA = i /\ records[j].TaskID # <<>>}

\* C7: each commit message contributes at most one task identifier, and only
\* one it begins with; a later or a second identifier is not extracted.
C7_AnchoredAtStart ==
    commits.called =>
        \A i \in DOMAIN log :
            /\ Cardinality(TaskRecords(commits.r, i)) <= 1
            /\ \A j \in TaskRecords(commits.r, i) :
                  HasPrefix(Messages[log[i]], commits.r[j].TaskID)

ABC12345 == <<"A", "B", "C", "-", "1", "2", "3", "4", "5">>

\* C8: the messages "ABC-12345 fix", "no id here", "xy-99999z more" yield
\* exactly the set {"ABC-12345"}: the message without an identifier and the
\* message whose identifier-shaped prefix runs on into a letter yield none.
C8_ScenarioTwo ==
    (commits.called /\ log = <<1, 2, 3>>) =>
        /\ TaskIDs(commits.r) = {ABC12345}
        /\ TaskRecords(commits.r, 2) = {}
        /\ TaskRecords(commits.r, 3) = {}

(***************************************************************************)
(* Properties of the previous release branch lookup                        *)
(***************************************************************************)
\* C9: GetPreviousReleaseBranch fails for every version <= 1 without asking
\* the repository; for a version >= 2 it resolves to an existing branch of
\* version - 1 whenever origin has one under either naming form, and fails
\* only if origin has neither.
C9_PreviousBranchResolution ==
    branchResult.called =>
        LET r == branchResult.r
            forms == {ReleaseBranch("/", currentVersion - 1),
                      ReleaseBranch("-", currentVersion - 1)}
        IN /\ currentVersion <= 1 => (r.err /\ r.checks = 0)
           /\ currentVersion >= 2 =>
                 /\ r.err <=> (forms \cap refs = {})
                 /\ ~r.err => r.name \in forms \cap refs

\* a version >= 2 whose previous branch exists under the hyphen form only,
\* and is found
C9_Witness ==
    /\ branchResult.called
    /\ currentVersion >= 2
    /\ ReleaseBranch("-", currentVersion - 1) \in refs
    /\ ReleaseBranch("/", currentVersion - 1) \notin refs
    /\ ~branchResult.r.err
    /\ branchResult.r.name = ReleaseBranch("-", currentVersion - 1)

(***************************************************************************)
(* Properties of the descriptor rewrite                                    *)
(***************************************************************************)
\* C5: UpdatePomFile and UpdatePomFiles are idempotent: a second call with
\* the same arguments on the output of the first leaves every descriptor of
\* the tree, root or submodule, as the first call wrote it.
C5_Idempotent ==
    pomCalls = 2 => pomFiles = pomFirst

\* the open elements once the innermost element called name is closed
Closed(open, name) ==
    LET at == {j \in DOMAIN open : open[j] = name}
    IN IF at = {} THEN open
       ELSE Sub(open, 1, (CHOOSE j \in at : \A h \in at : j >= h) - 1)

\* the elements open after the symbols of s from position i on, given those
\* open before; the content of a comment opens and closes nothing
RECURSIVE OpenElements(_, _, _, _)
OpenElements(s, i, open, inComment) ==
    IF i >= Len(s) THEN open
    ELSE IF inComment
         THEN IF s[i] = "--" /\ s[i + 1] = ">"
              THEN OpenElements(s, i + 2, open, FALSE)
              ELSE OpenElements(s, i + 1, open, TRUE)
    ELSE IF s[i] # "<" THEN OpenElements(s, i + 1, open, FALSE)
    ELSE IF s[i + 1] = "!--" THEN OpenElements(s, i + 2, open, TRUE)
    ELSE IF s[i + 1] = "/"
         THEN OpenElements(s, i + 2, Closed(open, s[i + 2]), FALSE)
    ELSE OpenElements(s, i + 2, Append(open, s[i + 1]), FALSE)

\* the symbols of the first k lines of a descriptor
RECURSIVE FirstLines(_, _)
FirstLines(text, k) ==
    IF k = 0 THEN <<>> ELSE FirstLines(text, k - 1) \o text[k]

\* the elements that enclose the version field of line k
Enclosing(text, k) ==
    OpenElements(FirstLines(text, k - 1)
                    \o Sub(text[k], 1, Index(text[k], VersionOpen) - 1),
                 1, <<>>, FALSE)

\* the lines of a descriptor that hold a version field outside a properties
\* block, and those of them whose field is a direct child of the project
VersionFields(text) ==
    {k \in DOMAIN text :
        /\ Contains(text[k], VersionOpen) /\ Contains(text[k], VersionClose)
        /\ "properties" \notin Range(Enclosing(text, k))}

DirectVersionFields(text) ==
    {k \in VersionFields(text) : Enclosing(text, k) = <<"project">>}

\* the line with the value of its version field replaced
WithVersion(line, value) ==
    Sub(line, 1, Index(line, VersionOpen) + Len(VersionOpen) - 1)
        \o value \o Sub(line, Index(line, VersionClose), Len(line))

\* C10: in a root descriptor the first version field that is a direct child
\* of the project element becomes <version>.0, and every other version
\* field of the file is left as it was.
C10_RootFirstDirectVersion ==
    (pomCalls = 1 /\ ~pomErr /\ RootPath \in DOMAIN pomFiles) =>
        LET before == pomInput[RootPath]
            after == pomFiles[RootPath]
            direct == DirectVersionFields(before)
        IN \A k \in VersionFields(before) :
              after[k] =
                 IF direct # {} /\ \A j \in direct : k <= j
                 THEN WithVersion(before[k], pomVersion \o <<".0">>)
                 ELSE before[k]

\* the lines whose version field lies inside the parent block, and those
\* whose version field is neither there nor a direct child of the project
ParentVersionFields(text) ==
    {k \in VersionFields(text) : "parent" \in Range(Enclosing(text, k))}

NestedVersionFields(text) ==
    {k \in VersionFields(text) :
        /\ Enclosing(text, k) # <<"project">>
        /\ "parent" \notin Range(Enclosing(text, k))}

\* the first of a non-empty set of lines
FirstOf(ks) == CHOOSE k \in ks : \A j \in ks : k <= j

\* C11: in a submodule descriptor the first version field inside the parent
\* block becomes <version>.0, and so does the first version field that is a
\* direct child of the project, each whether or not the other is there and
\* whichever comes first; the later fields of either kind stay as they were.
C11_SubmoduleBothVersions ==
    (pomCalls = 1 /\ ~pomErr /\ ModulePath \in DOMAIN pomFiles) =>
        LET before == pomInput[ModulePath]
            after == pomFiles[ModulePath]
            inParent == ParentVersionFields(before)
            direct == DirectVersionFields(before)
        IN \A k \in inParent \cup direct :
              after[k] =
                 IF \/ (k \in inParent /\ k = FirstOf(inParent))
                    \/ (k \in direct /\ k = FirstOf(direct))
                 THEN WithVersion(before[k], pomVersion \o <<".0">>)
                 ELSE before[k]

\* C12: a version field that is neither a direct child of the project nor
\* inside the parent block is never rewritten, in a root and in a submodule
\* descriptor, with or without a version field of the project itself.
C12_NestedVersionUntouched ==
    (pomCalls = 1 /\ ~pomErr) =>
        \A path \in DOMAIN pomFiles :
            \A k \in NestedVersionFields(pomInput[path]) :
                pomFiles[path][k] = pomInput[path][k]

\* the elements open before line k, and whether a properties block is one
OpenBefore(text, k) == OpenElements(FirstLines(text, k - 1), 1, <<>>, FALSE)

InProperties(text, k) == "properties" \in Range(OpenBefore(text, k))

\* the name in the first tag of a trimmed line u, and the position of the
\* first "<" after that tag
FieldName(u) == Sub(u, 2, Index(u, Gt) - 1)

ValueEnd(u) ==
    LET later == {i \in DOMAIN u : i > Index(u, Gt) /\ u[i] = "<"}
    IN IF later = {} THEN 0 ELSE CHOOSE i \in later : \A j \in later : i <= j

\* a single-line field: an opening tag, text, and the closing tag of the
\* same name
IsField(u) ==
    /\ Len(u) >= 3 /\ u[1] = "<" /\ u[2] \notin {"/", "!--"}
    /\ Index(u, Gt) > 2
    /\ ValueEnd(u) # 0
    /\ Sub(u, ValueEnd(u), Len(u)) = LtSlash \o FieldName(u) \o Gt

\* the line of a single-line field with value as the text of the field
WithValue(line, value) ==
    LET lead == Index(line, Lt) - 1
        u == TrimSpace(line)
    IN Sub(line, 1, lead + Index(u, Gt)) \o value
          \o Sub(line, lead + ValueEnd(u), Len(line))

\* the lines of a descriptor that hold a single-line field inside a
\* properties block whose name contains the pattern
MatchingProperties(text, pattern) ==
    {k \in DOMAIN text :
        /\ InProperties(text, k)
        /\ IsField(TrimSpace(text[k]))
        /\ Contains(FieldName(TrimSpace(text[k])), pattern)}

\* C13: inside a properties block every single-line field whose tag name
\* contains propertyPattern gets the text <version>.0, however many there
\* are and whatever the field held, an empty value included.
C13_MatchingPropertiesRewritten ==
    (pomCalls = 1 /\ ~pomErr) =>
        \A path \in DOMAIN pomFiles :
            \A k \in MatchingProperties(pomInput[path], propertyPattern) :
                pomFiles[path][k] =
                    WithValue(pomInput[path][k], pomVersion \o <<".0">>)

\* the lines inside a properties block whose first tag is a closing tag
ClosingFirst(text) ==
    {k \in DOMAIN text :
        /\ InProperties(text, k)
        /\ HasPrefix(TrimSpace(text[k]), LtSlash)}

\* C14: a line inside a properties block whose first tag is a closing tag,
\* also one named like propertyPattern, is left as it was.
C14_ClosingTagUntouched ==
    pomCalls >= 1 =>
        \A path \in DOMAIN pomFiles :
            \A k \in ClosingFirst(pomInput[path]) :
                pomFiles[path][k] = pomInput[path][k]

\* a properties block with a rewritten property and, after it, a line that
\* starts with the closing tag of a name that contains the pattern and
\* goes on with text
C14_Witness ==
    /\ pomCalls = 1
    /\ propertyPattern # <<>>
    /\ \E path \in DOMAIN pomFiles :
         \E k \in ClosingFirst(pomInput[path]) :
            /\ Contains(pomInput[path][k], propertyPattern)
            /\ Len(pomInput[path][k]) > Len(AppVersionClose)
            /\ \E j \in 1..(k - 1) : pomFiles[path][j] # pomInput[path][j]

\* the names of the tags on a line, opening and closing ones alike
TagNames(line) ==
    {LET from == IF line[i + 1] = "/" THEN i + 2 ELSE i + 1
         rest == Sub(line, from, Len(line))
     IN Sub(rest, 1, Index(rest, Gt) - 1) :
        i \in {j \in 1..(Len(line) - 1) :
                  line[j] = "<" /\ line[j + 1] # "!--"}}

\* the pattern occurs in a tag name on a line inside a properties block
PatternInProperties(text, pattern) ==
    \E k \in DOMAIN text :
        /\ InProperties(text, k)
        /\ \E name \in TagNames(text[k]) : Contains(name, pattern)

\* C15: when propertyPattern occurs in no tag name inside a properties
\* block, every line inside a properties block is as it was; and a line
\* outside the properties blocks changes, if at all, only by the rewrite
\* of its version field.
C15_NoMatchNoPropertyChange ==
    pomCalls = 1 =>
        \A path \in DOMAIN pomFiles :
            LET before == pomInput[path]
                after == pomFiles[path]
            IN /\ ~PatternInProperties(before, propertyPattern) =>
                    \A k \in DOMAIN before :
                        InProperties(before, k) => after[k] = before[k]
               /\ \A k \in DOMAIN before :
                    (~InProperties(before, k) /\ after[k] # before[k]) =>
                        /\ k \in VersionFields(before)
                        /\ after[k] =
                             WithVersion(before[k], pomVersion \o <<".0">>)

\* line b rewritten to line a: the text between one ">" and a later "<"
\* becomes <version>.0 and every other byte stays
Framed(b, a, value) ==
    \E i \in DOMAIN b :
        \E j \in i..(Len(b) - 1) :
            /\ b[i] = ">"
            /\ b[j + 1] = "<"
            /\ a = Sub(b, 1, i) \o value \o Sub(b, j + 1, Len(b))

LastStatus == statuses[Len(statuses)]

\* C17: the loop returns success exactly when a poll observes success and
\* failure when a poll observes failed, canceled or skipped; a poll that
\* observes running, pending or created ends the loop neither with success
\* nor with a pipeline failure, and while the ceiling is not exceeded the
\* loop waits one ticker period and polls again.
C17_StatusClassification ==
    statuses # <<>> =>
        /\ \A i \in 1..(Len(statuses) - 1) :
                statuses[i] \in NonTerminal \cup Unrecognised
        /\ waitReturn = "success" <=> LastStatus = "success"
        /\ LastStatus \in TerminalFailure => waitReturn = "failed"
        /\ LastStatus \in NonTerminal =>
                /\ waitReturn \notin {"success", "failed"}
                /\ sinceStart <= MaxDurationTicks =>
                        /\ waitPc = "polling"
                        /\ waitReturn = "none"
                        /\ ticks = Len(statuses)

\* as many polls as the ceiling allows, the last of which observes skipped
C17_Witness ==
    /\ Len(statuses) = MaxDurationTicks + 2
    /\ \A i \in 1..(Len(statuses) - 1) : statuses[i] \in NonTerminal
    /\ LastStatus = "skipped"
    /\ waitReturn = "failed"

Returned == waitPc = "returned"

\* C18 as stated: every loop ends, with a timeout once the ceiling is
\* exceeded without a terminal status, and it ends only with a terminal
\* status or a timeout.
C18_EndsOnlyOnStatusOrTimeout ==
    /\ <>Returned
    /\ [](Returned => waitReturn \in {"success", "failed", "timeout"})

\* C18: every loop ends; it goes on only while the elapsed time is within
\* the ceiling, and a status that is not terminal observed past the ceiling
\* ends it with the timeout error, however many polls were made; it ends
\* only with a terminal status, a timeout or the error of a status request.
C18_LoopTerminates ==
    /\ <>Returned
    /\ [](waitPc = "polling" => sinceStart <= MaxDurationTicks)
    /\ [](Returned =>
            /\ waitReturn \in {"success", "failed", "timeout", "poll_error"}
            /\ waitReturn = "poll_error" <=> LastStatus = "transport_error"
            /\ waitReturn = "timeout" <=>
                    /\ LastStatus \in NonTerminal \cup Unrecognised
                    /\ sinceStart > MaxDurationTicks)

\* a loop that only saw statuses that are not terminal and ended with the
\* timeout after the most polls the ceiling allows
C18_Witness ==
    /\ Returned
    /\ waitReturn = "timeout"
    /\ Len(statuses) = MaxDurationTicks + 2
    /\ \A i \in DOMAIN statuses : statuses[i] \in NonTerminal

\* C19: a trigger request carries the HELM_NAMESPACE override only if the
\* pre-check found the remote variable absent (404) or blank; after a
\* pre-check that found a value the request never carries it.
C19_OverrideOnlyWhenAbsentOrBlank ==
    /\ lastTrigger.override =>
            /\ lastTrigger.precheck \in {"404", "200_blank"}
            /\ helmNamespace # ""
    /\ lastTrigger.precheck = "200_value" => ~lastTrigger.override

\* a namespace was given, the remote project has a value, and the trigger
\* request went out without the override
C19_Witness ==
    /\ helmNamespace # ""
    /\ lastTrigger.precheck = "200_value"
    /\ ~lastTrigger.override
    /\ \E s \in DOMAIN triggers : triggers[s] = 1

\* C20: a service gets at most one trigger request; a service whose trigger
\* was refused is done with no status poll, and the dispatch does not
\* return success.
C20_TriggerFailureIsFinal ==
    \A s \in DOMAIN triggers :
        /\ triggers[s] <= 1
        /\ outcome[s] = "trigger_error" =>
                /\ ~polled[s]
                /\ svcPc[s] = "done"
                /\ mainPc = "returned" => result.kind \notin {"nil", "none"}

\* a group member whose trigger was refused, next to a member that was
\* polled, once the dispatch has returned that member's error
C20_Witness ==
    /\ mainPc = "returned"
    /\ \E s \in DOMAIN triggers :
         /\ triggers[s] = 1
         /\ outcome[s] = "trigger_error"
         /\ result = [svc |-> s, kind |-> "create"]
         /\ \E u \in DOMAIN triggers :
              /\ u # s
              /\ polled[u]
              /\ u \in Members(curGroup) /\ s \in Members(curGroup)

\* C21, for the status poll: a poll answered by a transport failure or by
\* an error response of the API is the last poll of the loop, which returns
\* that error. (An error of the pre-check or of the trigger ends
\* createPipeline before any poll: see C20.)
C21_PollErrorsPropagate ==
    \A i \in DOMAIN statuses :
        statuses[i] \in {"transport_error", "api_error"} =>
            /\ i = Len(statuses)
            /\ waitPc = "returned"
            /\ waitReturn = "poll_error"

\* the members of the current group whose dispatch failed
FailedMembers ==
    {m \in Members(curGroup) : outcome[m] \notin {"none", "success"}}

\* C22: the channel holds the failures of the current group in the order
\* they happened, one per failed member; when CreatePipelines returns a
\* failure of a group member it is the first of them, and by then every
\* member of the group has finished.
C22_FirstFailureSurfaced ==
    /\ mainPc \in {"group_spawn", "group_wait", "returned"} =>
            /\ Len(errors) = Cardinality(FailedMembers)
            /\ {errors[i].svc : i \in DOMAIN errors} = FailedMembers
    /\ (mainPc = "returned" /\ result # NoError /\ result.svc \in GroupMembers) =>
            /\ result = errors[1]
            /\ \A m \in Members(curGroup) : svcPc[m] = "done"

\* two members failed, the later one in input order first, and its failure
\* is the one returned
C22_Witness ==
    /\ mainPc = "returned"
    /\ Len(errors) >= 2
    /\ errors[1].svc > errors[2].svc
    /\ result = errors[1]

\* the entries of a list that are the service s
Entries(list, s) == Cardinality({i \in DOMAIN list : list[i].name = s})

\* the service s is once in the sequential list and in no group, or once
\* in one group and not in the sequential list
PlacedOnce(s) ==
    LET inSeq == {i \in DOMAIN sequentialServices :
                      sequentialServices[i].name = s}
        holding == {g \in DOMAIN groups :
                      \E i \in DOMAIN groups[g] : groups[g][i].name = s}
    IN IF inSeq # {}
       THEN /\ holding = {}
            /\ \A i, j \in inSeq : i = j
       ELSE /\ \E g \in holding : holding = {g}
            /\ \A g \in holding :
                   \A i, j \in DOMAIN groups[g] :
                       (groups[g][i].name = s /\ groups[g][j].name = s) => i = j

Partitioned == mainPc \notin {"idle", "start"} /\ result.kind # "env"

\* C23: once CreatePipelines has partitioned its input, every service is
\* once in the sequential list or once in one group, never both and never
\* neither; a dispatch that returns success triggered one pipeline for each.
C23_OneClassPerService ==
    Partitioned =>
        /\ \A s \in SvcIds : PlacedOnce(s)
        /\ (mainPc = "returned" /\ result = NoError) =>
                \A s \in SvcIds : triggers[s] = 1

\* a successful dispatch of a sequential service that also names a group,
\* an ungrouped service, and a group member
C23_Witness ==
    /\ mainPc = "returned"
    /\ result = NoError
    /\ \E a, b, c \in SvcIds :
         /\ services[a].Sequential /\ services[a].Group # ""
         /\ ~services[b].Sequential /\ services[b].Group = ""
         /\ ~services[c].Sequential /\ services[c].Group # ""
         /\ Entries(sequentialServices, a) = 1
         /\ Entries(sequentialServices, b) = 1
         /\ Entries(groups[services[c].Group], c) = 1

(***************************************************************************)
(* Properties of the release notes                                         *)
(***************************************************************************)
\* the services whose processing was given up at some step
Skipped == (NoteServices \ remaining) \ ((DOMAIN serviceStats) \cup {curSvc})

\* C24: a failure of a step of one service does not end the run: while
\* services remain the loop goes on, and once the previous branch is known
\* the run ends only after every service was taken up, with the full
\* artifact written and success returned, or with the error of the write.
C24_ServiceFailuresAreSoft ==
    prevBranch # <<>> =>
        /\ (nPc = "loop" /\ remaining # {}) => notesResult = "none"
        /\ nPc = "done" =>
                /\ remaining = {}
                /\ notesResult \in {"nil", "write_error"}
                /\ notesResult = "nil" <=> artifact.kind = "full"
                /\ notesResult = "write_error" <=> artifact = NoArtifact

\* one service was given up, another has its row, and the artifact is written
C24_Witness ==
    /\ nPc = "done"
    /\ notesResult = "nil"
    /\ artifact.kind = "full"
    /\ Skipped # {}
    /\ DOMAIN serviceStats # {}

\* C25: when the previous release branch cannot be resolved, which is
\* always so for a version of at most 1, CreateReleaseNotes takes up no
\* service, writes the file that says no previous release branch was found
\* and returns success, or returns the error of that write; it returns no
\* other error.
C25_UnresolvedLineageIsNotFatal ==
    /\ notesResult \in {"none", "nil", "write_error"}
    /\ (nPc \notin {"idle", "start"} /\ version <= 1) => prevBranch = <<>>
    /\ (nPc \notin {"idle", "start"} /\ prevBranch = <<>>) =>
            /\ nPc = "done"
            /\ remaining = NoteServices
            /\ serviceStats = <<>>
            /\ allTasksBetweenReleases = {}
            /\ \/ /\ notesResult = "nil"
                  /\ artifact.kind = "minimal"
                  /\ artifact.version = version
               \/ /\ notesResult = "write_error"
                  /\ artifact = NoArtifact

\* a version with a predecessor whose branch the remote does not have
C25_Witness ==
    /\ nPc = "done"
    /\ version > 1
    /\ prevBranch = <<>>
    /\ notesResult = "nil"
    /\ artifact.kind = "minimal"

\* the release tags among the merged tags, under either separator
ReleaseTags ==
    {tg \in mergedTags :
        \E sep \in {"/", "-"} : HasPrefix(tg, Release \o <<sep>>)}

\* C26: the marker of the service in hand is the greatest, in the order of
\* the bytes, of the release tags merged into the previous branch under
\* either separator, and the tip of the previous branch when there is none;
\* the row of a processed service names the marker it was processed with.
C26_MarkerIsGreatestTag ==
    /\ nPc \in {"between", "in_prev"} =>
            IF ReleaseTags = {}
            THEN lastTagInPrevBranch = Origin \o prevBranch
            ELSE /\ lastTagInPrevBranch \in ReleaseTags
                 /\ \A tg \in ReleaseTags :
                        tg = lastTagInPrevBranch \/ StrLess(tg, lastTagInPrevBranch)
    /\ \A s \in DOMAIN serviceStats :
            \/ serviceStats[s].LastTag = Origin \o prevBranch
            \/ HasPrefix(serviceStats[s].LastTag, Release)

\* a service with tags of both forms, after a service that had no release
\* tag and has its row with the tip of the branch
C26_Witness ==
    /\ nPc = "between"
    /\ \E a, b \in ReleaseTags : a[8] = "/" /\ b[8] = "-"
    /\ \E s \in DOMAIN serviceStats :
            serviceStats[s].LastTag = Origin \o prevBranch

\* C27: the artifact lists the new tasks in ascending order of the bytes,
\* one line each, the identifier after taskURLPrefix, and then their number;
\* without new tasks it has the line that says so, no task line and no
\* total; the rows of the statistics are those of the processed services in
\* ascending order of the service names.
C27_ArtifactLayout ==
    artifact.kind = "full" =>
        /\ \A i \in DOMAIN artifact.taskLines :
                /\ HasPrefix(artifact.taskLines[i], taskURLPrefix)
                /\ ArtifactTasks[i] \in
                       allTasksBetweenReleases \ tasksInPreviousRelease
        /\ \A i \in 1..(Len(ArtifactTasks) - 1) :
                StrLess(ArtifactTasks[i], ArtifactTasks[i + 1])
        /\ IF allTasksBetweenReleases \subseteq tasksInPreviousRelease
           THEN /\ artifact.noNewTasksLine
                /\ artifact.taskLines = <<>>
                /\ artifact.total = -1
           ELSE /\ ~artifact.noNewTasksLine
                /\ artifact.total = Len(artifact.taskLines)
                /\ artifact.total =
                       Cardinality(allTasksBetweenReleases \ tasksInPreviousRelease)
        /\ {artifact.rows[i].service : i \in DOMAIN artifact.rows} =
                DOMAIN serviceStats
        /\ \A i \in 1..(Len(artifact.rows) - 1) :
                StrLess(artifact.rows[i].service, artifact.rows[i + 1].service)

\* an artifact with a prefix, several task lines and the rows of two services
C27_Witness ==
    /\ artifact.kind = "full"
    /\ taskURLPrefix # <<>>
    /\ Len(artifact.taskLines) >= 2
    /\ artifact.total = Len(artifact.taskLines)
    /\ Len(artifact.rows) = 2

(***************************************************************************)
(* Properties of the descriptor phase                                      *)
(***************************************************************************)
\* the descriptors of service s as the rewrite leaves them when it succeeds
Versioned(s) == UpdatePomFiles(fleetInput[s], fleetVersion, MainPattern, 0)

\* C28: the run aborts at the first failed rewrite without a later step,
\* and an aborted run has rewritten either the descriptors of every service
\* or those of none.
C28_NoPartialVersioning ==
    (fleetPc = "fatal" /\ "pull" \in fleetSteps[fleetIdx]
                       /\ "pom" \notin fleetSteps[fleetIdx]) =>
        /\ \A s \in (fleetIdx + 1)..NumServices : fleetFiles[s] = fleetInput[s]
        /\ \/ \A s \in SvcIds : fleetFiles[s] = fleetInput[s]
           \/ \A s \in SvcIds : fleetFiles[s] = Versioned(s)

\* the version fields of a descriptor that qualify for the rewrite: the
\* direct children of project and, in a module, those of the parent block
QualifyingFields(text, path) ==
    DirectVersionFields(text) \cup
        (IF IsRootPom(path) THEN {} ELSE ParentVersionFields(text))

\* C29: a call on a directory without a descriptor returns success and
\* touches no file; a descriptor without a qualifying version field and
\* without a matching property is left as it was.
C29_AbsenceIsNotAnError ==
    pomCalls = 1 =>
        /\ DOMAIN pomInput = {} =>
                /\ ~pomErr
                /\ pomFiles = pomInput
                /\ WrittenPaths(pomInput, 0) = {}
        /\ \A path \in DOMAIN pomInput :
                (/\ QualifyingFields(pomInput[path], path) = {}
                 /\ ~PatternInProperties(pomInput[path], propertyPattern))
                    => pomFiles[path] = pomInput[path]

\* the flags and counters of UpdatePomFile after the first k lines
RECURSIVE ScanAfter(_, _, _)
ScanAfter(text, k, isRootPom) ==
    IF k = 0 THEN ScanStart
    ELSE ScanLine(ScanAfter(text, k - 1, isRootPom), text[k], isRootPom,
                  pomVersion, propertyPattern)

\* the element called name is open after the first k lines
InBlock(text, k, name) == name \in Range(OpenBefore(text, k + 1))

\* C30: after each line of a descriptor each of the three flags is true
\* exactly when an element of its block is open there: opened before and
\* not yet closed.
C30_FlagsFollowBlocks ==
    pomCalls = 1 =>
        \A path \in DOMAIN pomInput :
            \A k \in DOMAIN pomInput[path] :
                LET st == ScanAfter(pomInput[path], k, IsRootPom(path))
                IN /\ st.insideProject = InBlock(pomInput[path], k, "project")
                   /\ st.insideParent = InBlock(pomInput[path], k, "parent")
                   /\ st.insideProperties =
                          InBlock(pomInput[path], k, "properties")

\* line k of a descriptor lies inside the block called name: the block is
\* open before the line and still open after it
InsideBlock(text, k, name) ==
    InBlock(text, k - 1, name) /\ InBlock(text, k, name)

\* C31: once the project block is entered the sibling counter never
\* decreases over the remaining lines of the descriptor, and a line inside
\* the parent block or the properties block leaves it as it was.
C31_SiblingCounterMonotone ==
    pomCalls = 1 =>
        \A path \in DOMAIN pomInput :
            \A k \in DOMAIN pomInput[path] :
                LET before == ScanAfter(pomInput[path], k - 1, IsRootPom(path))
                    after == ScanAfter(pomInput[path], k, IsRootPom(path))
                IN /\ before.insideProject =>
                          after.tagsAfterProject >= before.tagsAfterProject
                   /\ (\/ InsideBlock(pomInput[path], k, "parent")
                       \/ InsideBlock(pomInput[path], k, "properties")) =>
                          after.tagsAfterProject = before.tagsAfterProject

(***************************************************************************)
(* Further properties of the dispatcher                                    *)
(***************************************************************************)
\* the ways a dispatch of one service ends without the status success
Unsuccessful == {"failed", "timeout", "poll_error", "trigger_error"}

\* C32: CreatePipelines returns nil only if for every input service a
\* pipeline was triggered and a poll of it answered success; a service whose
\* dispatch ended in a failed status, a request error or the ceiling never
\* comes with a nil result.
C32_SuccessNeedsEverySuccess ==
    /\ (mainPc = "returned" /\ result = NoError) =>
            \A s \in SvcIds :
                triggers[s] >= 1 /\ polled[s] /\ outcome[s] = "success"
    /\ (\E s \in SvcIds : outcome[s] \in Unsuccessful) => result # NoError

C32_Witness ==
    /\ mainPc = "returned"
    /\ result = NoError
    /\ sequentialServices # <<>>
    /\ \E g \in DOMAIN groups : Len(groups[g]) >= 2

\* C33: a group worker sends at most one error and never blocks in the
\* send, and while CreatePipelines waits for a group either a worker of the
\* group can still take a step or wg.Wait returns: once every worker has
\* returned the dispatch goes on, whatever the size of the group and the
\* outcomes of its members.
C33_GroupPhaseCannotDeadlock ==
    /\ \A s \in SvcIds : svcPc[s] # "blocked"
    /\ \A i, j \in DOMAIN errors : errors[i].svc = errors[j].svc => i = j
    /\ mainPc \in {"group_spawn", "group_wait"} =>
            Len(errors) <= Len(groups[curGroup])
    /\ mainPc = "group_wait" =>
            \/ \E s \in Members(curGroup) : svcPc[s] \in {"spawned", "polling"}
            \/ WaitReturns(wg)

\* every member of a group of three has failed and the dispatcher can go on
C33_Witness ==
    /\ mainPc = "group_wait"
    /\ Len(groups[curGroup]) >= 3
    /\ Len(errors) = Len(groups[curGroup])
    /\ \E i, j \in DOMAIN errors : errors[i].kind # errors[j].kind
    /\ WaitReturns(wg)

\* C34: the groups are processed in a stable order: with the same service
\* configuration and the same groups already processed, the group the
\* dispatch turns to next is always the same one, so that two runs go
\* through the groups in the same order.
C34_GroupOrderStable ==
    [][(mainPc = "group_pick" /\ mainPc' = "group_spawn") =>
            \A g \in (DOMAIN groups) \ groupsDone : g = curGroup']_vars

(***************************************************************************)
(* Further properties of the release notes                                 *)
(***************************************************************************)
\* C35: a service with a failed step is skipped as a whole, so between two
\* services the identifiers of the global sets all come from the services
\* that have a row: the between set is empty when no row counts a task, and
\* the set of the previous release is empty when there is no row.
C35_SkippedServiceAddsNothing ==
    (nPc = "loop" \/ (nPc = "done" /\ prevBranch # <<>>)) =>
        /\ (\A x \in DOMAIN serviceStats : serviceStats[x].TasksFound = 0) =>
                allTasksBetweenReleases = {}
        /\ DOMAIN serviceStats = {} => tasksInPreviousRelease = {}

\* C36: the run does not depend on the iteration order of the services
\* map: whichever service the previous release branch is looked up in,
\* the lookup fails or succeeds alike and finds the same name, the one the
\* repository of every service gives.
C36_LineageIndependentOfFirst ==
    branchResult.called =>
        \A s \in NoteServices :
            LET other == GetPreviousReleaseBranch(dirRefs[s], currentVersion)
            IN /\ other.err = branchResult.r.err
               /\ other.name = branchResult.r.name

\* C37: GetCommitsBetween returns exactly one record per commit of the
\* range, so the number of records, which the statistics row shows as the
\* commit count, is the number of commits git log listed, whatever the
\* number of task identifiers in the subjects.
C37_OneRecordPerCommit ==
    commits.called =>
        /\ Len(commits.r) = Len(log)
        /\ \A i \in DOMAIN log :
              \E j \in DOMAIN commits.r :
                 /\ commits.r[j].SHA = i
                 /\ \A h \in DOMAIN commits.r : commits.r[h].SHA = i => h = j

\* the number a sequence of digits writes
RECURSIVE Atoi(_)
Atoi(s) ==
    IF s = <<>> THEN 0
    ELSE 10 * Atoi(Sub(s, 1, Len(s) - 1))
            + (CHOOSE d \in 0..9 : Digits[d + 1] = s[Len(s)])

\* the release number of a release tag, release<sep><major>.<minor>
ReleaseNumber(tg) ==
    LET number == Sub(tg, Len(Release) + 2, Len(tg))
        dot == Index(number, <<".">>)
    IN [major |-> Atoi(Sub(number, 1, dot - 1)),
        minor |-> Atoi(Sub(number, dot + 1, Len(number)))]

\* the release of tag a is later than that of tag b
LaterRelease(a, b) ==
    LET x == ReleaseNumber(a)
        y == ReleaseNumber(b)
    IN x.major > y.major \/ (x.major = y.major /\ x.minor > y.minor)

\* C38: the marker is the latest release tag merged into the previous
\* branch: no release tag there, of either separator form and of any
\* number of digits, has a higher release number than the marker.
C38_MarkerIsLatestRelease ==
    (nPc \in {"between", "in_prev"} /\ ReleaseTags # {}) =>
        /\ lastTagInPrevBranch \in ReleaseTags
        /\ \A tg \in ReleaseTags : ~LaterRelease(tg, lastTagInPrevBranch)

(***************************************************************************)
(* Properties of the phases of main                                        *)
(***************************************************************************)
\* the phases that are loops over the services
ServicePhases == {k \in DOMAIN Phases : Phases[k] # "confirm"}

\* a phase is begun for a service only when every earlier phase is
\* completed for every service
PhaseBarrier ==
    \A i, j \in ServicePhases :
        (i < j /\ \E s \in SvcIds : Phases[j] \in fleetSteps[s]) =>
            \A r \in SvcIds : Phases[i] \in fleetSteps[r]

\* C39: the phases run in the order of the text, each for every service
\* before the next for any: a descriptor is rewritten only after every
\* repository is checked clean, switched to develop and pulled, and a
\* repository is pushed only after every repository is committed and
\* tagged and the operator has confirmed the review.
C39_PhasesInOrder ==
    /\ PhaseBarrier
    /\ (\E s \in SvcIds : fleetFiles[s] # fleetInput[s]) =>
            \A r \in SvcIds : {"clean", "develop", "pull"} \subseteq fleetSteps[r]
    /\ (fleetPc = "push" \/ \E s \in SvcIds : "push" \in fleetSteps[s]) =>
            /\ \A r \in SvcIds : {"commit", "tag"} \subseteq fleetSteps[r]
            /\ fleetConfirm = "line"

====
